---- MODULE Spec2Model ----
(***************************************************************************)
(* Model of the patent ingestion pipeline:                                 *)
(*   - PostgresLoader.load_patents    (src/data-pipeline/postgres_loader.py)*)
(*   - USPTOIngestionService.fetch_patents_by_query                        *)
(*                                    (src/data-pipeline/ingestion.py)     *)
(* The relational store is modelled as the committed tables (db) and the   *)
(* working copy seen by the loader's open transaction (tx).                *)
(***************************************************************************)
EXTENDS Integers, Sequences, FiniteSets, Bags, TLC

VARIABLES
    \* ---- persistent store and the loader's connection
    db,              \* committed tables: patents, claims, citations
    tx,              \* tables as seen inside the loader's open transaction
    conn,            \* "none" | "open" | "closed"       (local conn)
    \* ---- one invocation of load_patents
    pc,              \* position inside load_patents
    patents,         \* argument: List[ParsedPatent]
    claims,          \* argument: List[ParsedClaim]
    citations,       \* argument: List[ParsedCitation]
    idx,             \* loop position of the running for-loop
    patent_id,       \* local of _insert_claims: id fetched for the group
    inserted_count,  \* local of the running _insert_* helper
    result,          \* local dict {'patents','claims','citations'}
    raised,          \* TRUE when load_patents left by an exception
    \* ---- observation only
    hist,            \* history of the current invocation
    latest,          \* per patent_number, the last patent a committed phase 1 carried
    \* ---- one invocation of fetch_patents_by_query
    fpc,             \* position inside fetch_patents_by_query
    max_pages,       \* argument
    page,            \* payload['o']['page']
    total_count,     \* local (only logged)
    total_pages,     \* local
    pages_to_fetch,  \* local
    all_patents,     \* local accumulator
    fresult,         \* returned list
    fraised,         \* TRUE when the fetch left by an exception
    fhist,           \* requests issued and responses received (observation)
    \* ---- extract_keywords called on a text and again on its own result
    kpc,             \* "idle" | "once" | "twice"
    user_idea,       \* argument: the text, one character per element
    max_keywords,    \* argument
    keywords,        \* the string returned for user_idea
    keywords_again,  \* the string returned for keywords
    \* ---- one invocation of parse_patents
    ppc,             \* "idle" | "loop" | "done"
    raw_patents,     \* argument: List[Dict]
    pidx,            \* position of the for-loop
    parsed,          \* the locals patents, claims, citations
    praised,         \* TRUE when parse_patents left by an exception
    phist,           \* per record, what its iteration appended (observation)
    \* ---- one request to a pipeline handler
    hpc,             \* "start" | "fetch" | "parse" | "load" | "done"
    handler,         \* "ingest_and_store" (tool server) | "search" (HTTP API)
    arguments,       \* the tool arguments / the JSON body
    response,        \* what the handler returned
    hraised,         \* TRUE when the handler left by an exception
    store_before,    \* the committed tables when the request came (observation)
    \* ---- two connections running load_patents at the same time
    cstore,          \* committed tables; a claims row carries its serial id
    cpc,             \* per loader, its position inside load_patents
    cbatch,          \* per loader, the claims argument
    cwrites,         \* per loader, the uncommitted writes of its transaction
    csnap,           \* per loader, the rows its running DELETE statement sees
    cpid,            \* per loader, the local patent_id
    next_rid,        \* the sequence behind the serial id of patents.claims
    chist,           \* overlap and commit order (observation)
    \* ---- handle_client on one connection of the JSON-RPC server
    rpc_pc,          \* position inside handle_client
    rpc_data,        \* what reader.read returned
    rpc_request,     \* the decoded request
    rpc_response,    \* the response about to be written
    rpc_written,     \* the responses handed to the transport while it was up
    rpc_transport,   \* "open", "lost" (the peer is gone) or "closed"
    rpc_hist         \* tool outcome, loss, cancellation, escaped exception

loadVars  == <<db, tx, conn, pc, patents, claims, citations, idx, patent_id,
               inserted_count, result, raised, hist, latest>>
fetchVars == <<fpc, max_pages, page, total_count, total_pages, pages_to_fetch,
               all_patents, fresult, fraised, fhist>>
kwVars    == <<kpc, user_idea, max_keywords, keywords, keywords_again>>
parseVars == <<ppc, raw_patents, pidx, parsed, praised, phist>>
pipeVars  == <<hpc, handler, arguments, response, hraised, store_before>>
concVars  == <<cstore, cpc, cbatch, cwrites, csnap, cpid, next_rid, chist>>
rpcVars   == <<rpc_pc, rpc_data, rpc_request, rpc_response, rpc_written,
               rpc_transport, rpc_hist>>
vars      == <<loadVars, fetchVars, kwVars, parseVars, pipeVars, concVars, rpcVars>>

\* what the actions of each component leave alone
loadFrame  == <<fetchVars, kwVars, parseVars, pipeVars, concVars, rpcVars>>
fetchFrame == <<loadVars, kwVars, parseVars, pipeVars, concVars, rpcVars>>
kwFrame    == <<loadVars, fetchVars, parseVars, pipeVars, concVars, rpcVars>>
parseFrame == <<loadVars, fetchVars, kwVars, pipeVars, concVars, rpcVars>>
concFrame  == <<loadVars, fetchVars, kwVars, parseVars, pipeVars, rpcVars>>
rpcFrame   == <<loadVars, fetchVars, kwVars, parseVars, pipeVars, concVars>>

----------------------------------------------------------------------------
\* Bounds of the model

\* number of normalized records whose output is handed to one load
MaxRecords == 2
\* number of load_patents invocations in one behaviour
MaxLoads   == 2
\* largest total_pages value the search service reports
MaxTotalPages == 6
\* words per input text of extract_keywords
MaxWords == 3
\* largest max_keywords passed to extract_keywords
MaxKeywords == 2
\* raw records per call of parse_patents
MaxRaw == 3

\* entries in a claims, inventors or citations list of a raw record
MaxEntries == 2

----------------------------------------------------------------------------
\* Generic helpers

Range(s) == {s[i] : i \in 1..Len(s)}

SeqsUpTo(S, n) == UNION {[1..k -> S] : k \in 0..n}

RECURSIVE SeqToBag(_)
SeqToBag(s) ==
    IF s = <<>> THEN EmptyBag
    ELSE SetToBag({Head(s)}) (+) SeqToBag(Tail(s))

----------------------------------------------------------------------------
\* Input values (parser_service.py dataclasses)

PatentNumbers == {"P1", "P2"}

\* ParsedPatent: variant v fixes every attribute, so two variants of one
\* patent_number differ in every mutable attribute
ParsedPatent(pn, v) ==
    [patent_number  |-> pn,
     title          |-> <<"title", v>>,
     abstract       |-> <<"abstract", v>>,
     filing_date    |-> <<"filing", v>>,
     grant_date     |-> <<"grant", v>>,
     assignee_name  |-> <<"assignee", v>>,
     inventor_names |-> <<"inventors", v>>,
     raw_data       |-> <<"raw", v>>]

ParsedClaim(pn, n, t) ==
    [patent_number |-> pn, claim_number |-> n, claim_text |-> t]

ParsedCitation(citing, cited, ctype) ==
    [citing_patent |-> citing, cited_patent |-> cited, citation_type |-> ctype]

\* What one record contributes to the three lists of a batch
\* (parse_patents appends a record's patent, claims and citations together).
\* The third value is a record without claims and citations, the last one a
\* caller that passes claims and citations without their patent.
RecordOutputs ==
    {[patents   |-> <<ParsedPatent("P1", "a")>>,
      claims    |-> <<ParsedClaim("P1", 1, "x"), ParsedClaim("P1", 2, "y")>>,
      citations |-> <<ParsedCitation("P1", "P9", "backward")>>],
     [patents   |-> <<ParsedPatent("P1", "b")>>,
      claims    |-> <<ParsedClaim("P1", 2, "y")>>,
      citations |-> <<ParsedCitation("P1", "P9", "forward")>>],
     [patents   |-> <<ParsedPatent("P2", "a")>>,
      claims    |-> <<>>,
      citations |-> <<>>],
     [patents   |-> <<>>,
      claims    |-> <<ParsedClaim("P2", 1, "x")>>,
      citations |-> <<ParsedCitation("P2", "P1", "backward")>>]}

RECURSIVE Concat(_, _)
\* the list f of every record output of rs, concatenated in order
Concat(rs, f) ==
    IF rs = <<>> THEN <<>> ELSE Head(rs)[f] \o Concat(Tail(rs), f)

\* the (patents, claims, citations) triples handed to load_patents
Batches ==
    {[patents   |-> Concat(rs, "patents"),
      claims    |-> Concat(rs, "claims"),
      citations |-> Concat(rs, "citations")] : rs \in SeqsUpTo(RecordOutputs, MaxRecords)}

----------------------------------------------------------------------------
\* The relational store (tables patents.patents, patents.claims,
\* patents.citations) and the SQL statements the loader issues on it

EmptyStore == [patents |-> {}, claims |-> EmptyBag, citations |-> {}]

\* a row of patents.patents: surrogate id plus the columns of the INSERT
PatentRow(id, p) ==
    [id             |-> id,
     patent_number  |-> p.patent_number,
     title          |-> p.title,
     abstract       |-> p.abstract,
     filing_date    |-> p.filing_date,
     grant_date     |-> p.grant_date,
     assignee_name  |-> p.assignee_name,
     inventor_names |-> p.inventor_names,
     raw_data       |-> p.raw_data]

\* the id the serial column gives a new row (rows are never deleted)
NextId(t) == Cardinality(t.patents) + 1

\* faulty variant: ON CONFLICT (patent_number) DO NOTHING
UpsertPatentKeepOld(t, p) ==
    IF \E r \in t.patents : r.patent_number = p.patent_number
    THEN t
    ELSE [t EXCEPT !.patents = @ \cup {PatentRow(NextId(t), p)}]

\* faulty variant: a plain INSERT, no conflict target
UpsertPatentDuplicate(t, p) ==
    [t EXCEPT !.patents = @ \cup {PatentRow(NextId(t), p)}]

\* INSERT INTO patents.patents ... ON CONFLICT (patent_number) DO UPDATE SET
\* every column = EXCLUDED.column
UpsertPatent(t, p) ==
    IF \E r \in t.patents : r.patent_number = p.patent_number
    THEN [t EXCEPT !.patents =
            {IF r.patent_number = p.patent_number THEN PatentRow(r.id, p) ELSE r
               : r \in t.patents}]
    ELSE [t EXCEPT !.patents = @ \cup {PatentRow(NextId(t), p)}]

\* faulty variant: a row is returned also when none matches
SelectPatentIdAlways(t, pn) ==
    IF \E r \in t.patents : r.patent_number = pn
    THEN <<(CHOOSE r \in t.patents : r.patent_number = pn).id>>
    ELSE <<0>>

\* SELECT id FROM patents.patents WHERE patent_number = %s ; fetchone():
\* the row <<id>>, or <<>> for None
SelectPatentId(t, pn) ==
    IF \E r \in t.patents : r.patent_number = pn
    THEN <<(CHOOSE r \in t.patents : r.patent_number = pn).id>>
    ELSE <<>>

\* faulty variant: DELETE FROM patents.claims with no WHERE clause
DeleteClaimsEveryPatent(t, pid) == [t EXCEPT !.claims = EmptyBag]

\* faulty variant: the DELETE is missing
DeleteClaimsNone(t, pid) == t

\* DELETE FROM patents.claims WHERE patent_id = %s
DeleteClaims(t, pid) ==
    [t EXCEPT !.claims =
        [c \in {x \in BagToSet(t.claims) : x.patent_id # pid} |-> t.claims[c]]]

\* claims_data = [(patent_id, claim.claim_number, claim.claim_text) ...]
ClaimsData(pid, patent_claims) ==
    [i \in 1..Len(patent_claims) |->
        [patent_id    |-> pid,
         claim_number |-> patent_claims[i].claim_number,
         claim_text   |-> patent_claims[i].claim_text]]

\* execute_values(INSERT INTO patents.claims ... VALUES %s, claims_data)
InsertClaims(t, claims_data) ==
    [t EXCEPT !.claims = @ (+) SeqToBag(claims_data)]

\* cur.rowcount of INSERT ... ON CONFLICT (citing, cited) DO NOTHING
CitationRowcount(t, c) ==
    IF \E r \in t.citations :
          /\ r.citing_patent_number = c.citing_patent
          /\ r.cited_patent_number = c.cited_patent
    THEN 0 ELSE 1

\* faulty variant: ON CONFLICT ... DO UPDATE SET citation_type
InsertCitationOverwrite(t, c) ==
    [t EXCEPT !.citations =
        {r \in @ : ~(/\ r.citing_patent_number = c.citing_patent
                     /\ r.cited_patent_number = c.cited_patent)}
        \cup {[citing_patent_number |-> c.citing_patent,
                cited_patent_number  |-> c.cited_patent,
                citation_type        |-> c.citation_type]}]

\* INSERT INTO patents.citations ... ON CONFLICT
\* (citing_patent_number, cited_patent_number) DO NOTHING
InsertCitation(t, c) ==
    IF CitationRowcount(t, c) = 0 THEN t
    ELSE [t EXCEPT !.citations = @ \cup
            {[citing_patent_number |-> c.citing_patent,
              cited_patent_number  |-> c.cited_patent,
              citation_type        |-> c.citation_type]}]

\* claims_by_patent: the keys of the grouping dict, in insertion order
RECURSIVE GroupKeys(_)
GroupKeys(cs) ==
    IF cs = <<>> THEN <<>>
    ELSE LET rest == GroupKeys(SubSeq(cs, 1, Len(cs) - 1))
             k    == cs[Len(cs)].patent_number
         IN  IF k \in Range(rest) THEN rest ELSE Append(rest, k)

\* claims_by_patent[pn]: the claims of one patent, in list order
RECURSIVE GroupClaims(_, _)
GroupClaims(cs, pn) ==
    IF cs = <<>> THEN <<>>
    ELSE (IF Head(cs).patent_number = pn THEN <<Head(cs)>> ELSE <<>>)
           \o GroupClaims(Tail(cs), pn)

----------------------------------------------------------------------------
\* PostgresLoader.load_patents, one action per database call

ZeroCounts == [patents |-> 0, claims |-> 0, citations |-> 0]

\* the calls that can raise psycopg2.Error inside the try block
DbPoints ==
    {"connect", "patents", "commit_patents", "claims_select", "claims_delete",
     "claims_insert", "commit_claims", "citations", "commit_citations"}

\* the phase a database call belongs to
PhaseOf(p) ==
    CASE p \in {"patents", "commit_patents"} -> "patents"
      [] p \in {"claims_select", "claims_delete", "claims_insert", "commit_claims"}
                                              -> "claims"
      [] p \in {"citations", "commit_citations"} -> "citations"
      [] OTHER -> "connect"

\* hist: what an observer of the current invocation has seen
\*   loads      invocations so far
\*   pre        committed tables when the invocation began
\*   phaseStart committed tables when the current phase began
\*   phases     phases entered
\*   failed     the phase whose database call raised, or "none"
\*   dirty      the failing call left uncommitted writes behind
\*   at         the call that raised, or "none"
\*   connected  psycopg2.connect was called
\*   repeat     the invocation repeats the arguments of the one before
\*   prevOk     the invocation before returned without any error
NoHist ==
    [loads |-> 0, pre |-> EmptyStore, phaseStart |-> EmptyStore,
     phases |-> {}, failed |-> "none", dirty |-> FALSE, at |-> "none",
     connected |-> FALSE, repeat |-> FALSE, prevOk |-> FALSE]

\* no load_patents call yet
LoadIdle ==
    /\ conn = "none"
    /\ pc = "idle"
    /\ patents = <<>>
    /\ claims = <<>>
    /\ citations = <<>>
    /\ idx = 1
    /\ patent_id = 0
    /\ inserted_count = 0
    /\ result = ZeroCounts
    /\ raised = FALSE
    /\ hist = NoHist

LoadInit ==
    /\ db = EmptyStore
    /\ tx = EmptyStore
    /\ latest = [pn \in PatentNumbers |-> <<>>]
    /\ LoadIdle

\* faulty variant: no short-circuit on an empty list
EntryPointNoShortCircuit(ps) == "connect"

\* if not patents: return zeros; else go on to the try block
EntryPoint(ps) == IF ps = <<>> THEN "done" ELSE "connect"

\* entry of load_patents: the empty-list short-circuit, else conn = None and
\* result = zeros before the try block
Call(ps, cs, cts, rep) ==
    /\ pc \in {"idle", "done"}
    /\ hist.loads < MaxLoads
    /\ patents' = ps
    /\ claims' = cs
    /\ citations' = cts
    /\ result' = ZeroCounts
    /\ raised' = FALSE
    /\ conn' = "none"
    /\ idx' = 1
    /\ patent_id' = 0
    /\ inserted_count' = 0
    /\ pc' = EntryPoint(ps)
    /\ hist' = [loads |-> hist.loads + 1, pre |-> db, phaseStart |-> db,
                phases |-> {}, failed |-> "none", dirty |-> FALSE,
                at |-> "none", connected |-> FALSE, repeat |-> rep,
                prevOk |-> pc = "done" /\ hist.failed = "none"]
    /\ UNCHANGED <<db, tx, latest>>

\* load_patents(patents, claims, citations)
Load ==
    \E b \in Batches : Call(b.patents, b.claims, b.citations, FALSE)

\* load_patents called again with the arguments of the call that just returned
Reload ==
    /\ pc = "done"
    /\ ~hist.repeat
    /\ Call(patents, claims, citations, TRUE)

\* conn = psycopg2.connect(...); cur = conn.cursor(); enter _insert_patents
Connect ==
    /\ pc = "connect"
    /\ conn' = "open"
    /\ tx' = db
    /\ idx' = 1
    /\ inserted_count' = 0
    /\ pc' = "patents"
    /\ hist' = [hist EXCEPT !.connected = TRUE, !.phases = @ \cup {"patents"},
                            !.phaseStart = db]
    /\ UNCHANGED <<latest, db, patents, claims, citations, patent_id, result, raised>>

\* one iteration of the loop of _insert_patents; after the last one the helper
\* returns and result['patents'] is assigned
InsertPatent ==
    /\ pc = "patents"
    /\ tx' = UpsertPatent(tx, patents[idx])
    /\ inserted_count' = inserted_count + 1
    /\ IF idx = Len(patents)
       THEN /\ result' = [result EXCEPT !.patents = inserted_count + 1]
            /\ pc' = "commit_patents"
            /\ idx' = idx
       ELSE /\ idx' = idx + 1
            /\ UNCHANGED <<result, pc>>
    /\ UNCHANGED <<latest, db, conn, patents, claims, citations, patent_id, raised, hist>>

\* observation: the patent each patent_number was last loaded with, once the
\* list ps is committed (a later element of the list wins)
LastLoaded(old, ps) ==
    [pn \in PatentNumbers |->
        IF \E i \in 1..Len(ps) : ps[i].patent_number = pn
        THEN LET last == CHOOSE i \in 1..Len(ps) :
                            /\ ps[i].patent_number = pn
                            /\ \A j \in (i + 1)..Len(ps) : ps[j].patent_number # pn
             IN  <<ps[last]>>
        ELSE old[pn]]

\* conn.commit() after phase 1, then entry of _insert_claims
CommitPatents ==
    /\ pc = "commit_patents"
    /\ db' = tx
    /\ hist' = [hist EXCEPT !.phases = @ \cup {"claims"}, !.phaseStart = tx]
    /\ idx' = 1
    /\ inserted_count' = 0
    /\ IF claims = <<>>
       THEN /\ result' = [result EXCEPT !.claims = 0]
            /\ pc' = "commit_claims"
       ELSE /\ pc' = "claims_select"
            /\ UNCHANGED result
    /\ latest' = LastLoaded(latest, patents)
    /\ UNCHANGED <<tx, conn, patents, claims, citations, patent_id, raised>>

\* end of one iteration of the group loop of _insert_claims; after the last
\* group the helper returns and result['claims'] is assigned
NextGroup(count) ==
    IF idx = Len(GroupKeys(claims))
    THEN /\ result' = [result EXCEPT !.claims = count]
         /\ pc' = "commit_claims"
         /\ idx' = idx
    ELSE /\ idx' = idx + 1
         /\ pc' = "claims_select"
         /\ UNCHANGED result

\* SELECT id ...; fetchone(); a group without a patent row is skipped
ClaimsSelect ==
    /\ pc = "claims_select"
    /\ LET row == SelectPatentId(tx, GroupKeys(claims)[idx])
       IN  IF row = <<>>
           THEN /\ NextGroup(inserted_count)
                /\ UNCHANGED patent_id
           ELSE /\ patent_id' = row[1]
                /\ pc' = "claims_delete"
                /\ UNCHANGED <<idx, result>>
    /\ UNCHANGED <<latest, db, tx, conn, patents, claims, citations, inserted_count,
                   raised, hist>>

\* DELETE FROM patents.claims WHERE patent_id = %s
ClaimsDelete ==
    /\ pc = "claims_delete"
    /\ tx' = DeleteClaims(tx, patent_id)
    /\ pc' = "claims_insert"
    /\ UNCHANGED <<latest, db, conn, patents, claims, citations, idx, patent_id,
                   inserted_count, result, raised, hist>>

\* execute_values(...); inserted_count += len(claims_data)
ClaimsInsert ==
    /\ pc = "claims_insert"
    /\ LET claims_data ==
              ClaimsData(patent_id, GroupClaims(claims, GroupKeys(claims)[idx]))
       IN  /\ tx' = InsertClaims(tx, claims_data)
           /\ inserted_count' = inserted_count + Len(claims_data)
           /\ NextGroup(inserted_count + Len(claims_data))
    /\ UNCHANGED <<latest, db, conn, patents, claims, citations, patent_id, raised, hist>>

\* conn.commit() after phase 2, then entry of _insert_citations
CommitClaims ==
    /\ pc = "commit_claims"
    /\ db' = tx
    /\ hist' = [hist EXCEPT !.phases = @ \cup {"citations"}, !.phaseStart = tx]
    /\ idx' = 1
    /\ inserted_count' = 0
    /\ IF citations = <<>>
       THEN /\ result' = [result EXCEPT !.citations = 0]
            /\ pc' = "commit_citations"
       ELSE /\ pc' = "citations"
            /\ UNCHANGED result
    /\ UNCHANGED <<latest, tx, conn, patents, claims, citations, patent_id, raised>>

\* one iteration of the loop of _insert_citations; after the last one the
\* helper returns and result['citations'] is assigned
InsertCitationRow ==
    /\ pc = "citations"
    /\ LET count == inserted_count + CitationRowcount(tx, citations[idx])
       IN  /\ tx' = InsertCitation(tx, citations[idx])
           /\ inserted_count' = count
           /\ IF idx = Len(citations)
              THEN /\ result' = [result EXCEPT !.citations = count]
                   /\ pc' = "commit_citations"
                   /\ idx' = idx
              ELSE /\ idx' = idx + 1
                   /\ UNCHANGED <<result, pc>>
    /\ UNCHANGED <<latest, db, conn, patents, claims, citations, patent_id, raised, hist>>

\* finally: if conn: conn.close() (an open transaction is discarded), then
\* return result or let the pending exception out; the locals die
Return(exc) ==
    /\ conn' = IF conn = "open" THEN "closed" ELSE conn
    /\ tx' = db'
    /\ raised' = exc
    /\ idx' = 1
    /\ patent_id' = 0
    /\ inserted_count' = 0
    /\ pc' = "done"

\* conn.commit() after phase 3; the try block ends, finally, return result
CommitCitations ==
    /\ pc = "commit_citations"
    /\ db' = tx
    /\ Return(FALSE)
    /\ UNCHANGED <<latest, patents, claims, citations, result, hist>>

\* faulty variant: the except block commits what the transaction wrote
RollbackKeeps(t, committed) == t

\* what conn.rollback() makes of the tables: the open transaction t is
\* dropped and the committed tables stay
Rollback(t, committed) == committed

\* a call of DbPoints raises psycopg2.Error: the except block
\* (if conn: conn.rollback()), then finally and return result
DbError ==
    /\ pc \in DbPoints
    /\ db' = IF conn = "open" THEN Rollback(tx, db) ELSE db
    /\ hist' = [hist EXCEPT !.failed = PhaseOf(pc), !.dirty = (tx # db), !.at = pc]
    /\ Return(FALSE)
    /\ UNCHANGED <<latest, patents, claims, citations, result>>

\* as DbError, but conn.rollback() raises too (the connection is gone): the
\* new exception leaves the except block and, after finally, load_patents;
\* closing the connection drops the open transaction
DbErrorRollbackFails ==
    /\ pc \in DbPoints \ {"connect"}
    /\ db' = db
    /\ hist' = [hist EXCEPT !.failed = PhaseOf(pc), !.dirty = (tx # db), !.at = pc]
    /\ Return(TRUE)
    /\ UNCHANGED <<latest, patents, claims, citations, result>>

----------------------------------------------------------------------------
\* USPTOIngestionService.fetch_patents_by_query, one action per HTTP exchange

\* default of the max_pages parameter
DefaultMaxPages == 5

Min(a, b) == IF a <= b THEN a ELSE b

\* the JSON bodies the search service may answer a request for page p with:
\* each of the keys patents, count and total_pages may be absent
\* (an absent key is written with has_* FALSE and an empty value)
Responses(p) ==
    {r \in [has_patents : BOOLEAN, patents : {<<>>, <<[page |-> p]>>},
            has_count : BOOLEAN, count : {0, 7},
            has_total : BOOLEAN, total_pages : 0..MaxTotalPages] :
        /\ ~r.has_patents => r.patents = <<>>
        /\ r.has_count <=> r.count = 7
        /\ ~r.has_total => r.total_pages = 0}

\* the keys a response lacks
LackedKeys(data) ==
    (IF data.has_patents THEN {} ELSE {"patents"})
      \cup (IF data.has_count THEN {} ELSE {"count"})
      \cup (IF data.has_total THEN {} ELSE {"total_pages"})

\* data.get('count', len(patents))
GetCount(data) == IF data.has_count THEN data.count ELSE Len(data.patents)

\* data.get('total_pages', 1)
GetTotalPages(data) == IF data.has_total THEN data.total_pages ELSE 1

\* fhist: what an observer of the current fetch has seen
\*   requests   the pages requested, in order
\*   in_flight  requests sent and not yet answered
\*   first      <<the response of page 1>>, <<>> before it arrives
\*   served     the patents lists of the responses, in order (<<>> for a
\*              response without the key)
\*   lacked     the keys that some response lacked
\*   absent     the pages whose response lacked the patents key
\*   transport  a request failed at the transport layer
\*   badjson    a response body was not JSON
NoFetchHist ==
    [requests |-> <<>>, in_flight |-> 0, first |-> <<>>, served |-> <<>>,
     lacked |-> {},
     absent |-> {}, transport |-> FALSE, badjson |-> FALSE]

FetchIdle ==
    /\ fpc = "idle"
    /\ max_pages = DefaultMaxPages
    /\ page = 1
    /\ total_count = 0
    /\ total_pages = 0
    /\ pages_to_fetch = 0
    /\ all_patents = <<>>
    /\ fresult = <<>>
    /\ fraised = FALSE
    /\ fhist = NoFetchHist

\* entry of fetch_patents_by_query: payload with page 1, all_patents = []
FetchEntry(mp) ==
    /\ fpc \in {"idle", "done"}
    /\ max_pages' = mp
    /\ page' = 1
    /\ total_count' = 0
    /\ total_pages' = 0
    /\ pages_to_fetch' = 0
    /\ all_patents' = <<>>
    /\ fresult' = <<>>
    /\ fraised' = FALSE
    /\ fhist' = NoFetchHist
    /\ fpc' = "post"

\* fetch_patents_by_query(query, max_pages=mp)
FetchCall == \E mp \in 1..DefaultMaxPages : FetchEntry(mp)

\* self.session.post(BASE_URL, json=payload, timeout=30) is sent
Post ==
    /\ fpc = "post"
    /\ fhist' = [fhist EXCEPT !.requests = Append(@, page), !.in_flight = @ + 1]
    /\ fpc' = "wait"
    /\ UNCHANGED <<max_pages, page, total_count, total_pages, pages_to_fetch,
                   all_patents, fresult, fraised>>

\* faulty variant: the except clauses return what was accumulated
OnErrorKeepsBatches(acc) == acc

\* what the two except clauses return
OnError(acc) == <<>>

\* return from fetch_patents_by_query; the locals die
FetchReturn(value) ==
    /\ fresult' = value
    /\ fpc' = "done"
    /\ page' = 1
    /\ total_count' = 0
    /\ total_pages' = 0
    /\ pages_to_fetch' = 0
    /\ all_patents' = <<>>

\* post raises (network error, timeout) or raise_for_status raises (non-2xx):
\* except requests.RequestException: return []
TransportError ==
    /\ fpc = "wait"
    /\ fhist' = [fhist EXCEPT !.in_flight = @ - 1, !.transport = TRUE]
    /\ FetchReturn(OnError(all_patents))
    /\ UNCHANGED <<max_pages, fraised>>

\* response.json() raises on a body that is not JSON:
\* except (KeyError, ValueError): return []
JsonError ==
    /\ fpc = "wait"
    /\ fhist' = [fhist EXCEPT !.in_flight = @ - 1, !.badjson = TRUE]
    /\ FetchReturn(OnError(all_patents))
    /\ UNCHANGED <<max_pages, fraised>>

\* all_patents.extend(patents)
Extend(acc, batch) == acc \o batch

\* faulty variant: the page cap is ignored
PagesToFetchNoCap(mp, tp) == tp

\* pages_to_fetch = min(max_pages, total_pages)
PagesToFetch(mp, tp) == Min(mp, tp)

\* faulty variant: a later page without the patents key drops the fetch
AccumulateStrict(acc, data) ==
    IF data.has_patents THEN acc \o data.patents ELSE <<>>

\* if 'patents' in data: all_patents.extend(data['patents'])
Accumulate(acc, data) ==
    IF data.has_patents THEN Extend(acc, data.patents) ELSE acc

\* the response of page 1 arrives
FirstResponse ==
    /\ fpc = "wait"
    /\ page = 1
    /\ \E data \in Responses(1) :
        /\ fhist' = [fhist EXCEPT !.in_flight = @ - 1,
                                  !.first = <<data>>,
                                  !.served = Append(@, data.patents),
                                  !.lacked = @ \cup LackedKeys(data),
                                  !.absent = @ \cup
                                      (IF data.has_patents THEN {} ELSE {page})]
        /\ IF data.has_patents
           THEN LET n == PagesToFetch(max_pages, GetTotalPages(data))
                IN  IF 2 <= n
                    THEN \* first iteration of range(2, pages_to_fetch + 1)
                         /\ all_patents' = Extend(all_patents, data.patents)
                         /\ total_count' = GetCount(data)
                         /\ total_pages' = GetTotalPages(data)
                         /\ pages_to_fetch' = n
                         /\ page' = 2
                         /\ fpc' = "post"
                         /\ UNCHANGED fresult
                    ELSE FetchReturn(Extend(all_patents, data.patents))
           ELSE FetchReturn(all_patents)
    /\ UNCHANGED <<max_pages, fraised>>

\* the response of a page >= 2 arrives
LaterResponse ==
    /\ fpc = "wait"
    /\ page >= 2
    /\ \E data \in Responses(page) :
        /\ fhist' = [fhist EXCEPT !.in_flight = @ - 1,
                                  !.served = Append(@, data.patents),
                                  !.lacked = @ \cup LackedKeys(data),
                                  !.absent = @ \cup
                                      (IF data.has_patents THEN {} ELSE {page})]
        /\ LET acc == Accumulate(all_patents, data)
           IN  IF page < pages_to_fetch
               THEN /\ all_patents' = acc
                    /\ page' = page + 1
                    /\ fpc' = "post"
                    /\ UNCHANGED <<fresult, total_count, total_pages, pages_to_fetch>>
               ELSE FetchReturn(acc)
    /\ UNCHANGED <<max_pages, fraised>>

----------------------------------------------------------------------------
\* extract_keywords (ingestion.py)
\* A string is a sequence of one-character strings.  "D" stands for the
\* upper-case letters, "!" for the characters that are neither \w, \s nor "-".

\* str.lower on one character
Lower(c) == IF c = "D" THEN "d" ELSE c

\* text = user_idea.lower()
LowerText(t) == [i \in 1..Len(t) |-> Lower(t[i])]

\* re.sub(r'[^\w\s\-]', ' ', text)
Substitute(t) == [i \in 1..Len(t) |-> IF t[i] = "!" THEN " " ELSE t[i]]

\* length of the run of non-space characters a string starts with
WordEnd(t) ==
    IF \E i \in 1..Len(t) : t[i] = " "
    THEN (CHOOSE i \in 1..Len(t) : t[i] = " " /\ \A j \in 1..(i - 1) : t[j] # " ") - 1
    ELSE Len(t)

RECURSIVE Split(_)
\* text.split(): the maximal runs of non-space characters, in order
Split(t) ==
    IF t = <<>> THEN <<>>
    ELSE IF Head(t) = " " THEN Split(Tail(t))
    ELSE <<SubSeq(t, 1, WordEnd(t))>> \o Split(SubSeq(t, WordEnd(t) + 1, Len(t)))

stopwords ==
    {
     <<"a">>, <<"a", "n">>, <<"a", "n", "d">>, <<"a", "r", "e">>,
     <<"a", "s">>, <<"a", "t">>, <<"b", "e">>, <<"b", "y">>,
     <<"f", "o", "r">>, <<"f", "r", "o", "m">>, <<"h", "a", "s">>,
     <<"h", "e">>, <<"i", "n">>, <<"i", "s">>, <<"i", "t">>,
     <<"i", "t", "s">>, <<"o", "f">>, <<"o", "n">>, <<"t", "h", "a", "t">>,
     <<"t", "h", "e">>, <<"t", "o">>, <<"w", "a", "s">>,
     <<"w", "i", "l", "l">>, <<"w", "i", "t", "h">>,
     <<"w", "o", "u", "l", "d">>, <<"c", "o", "u", "l", "d">>,
     <<"s", "h", "o", "u", "l", "d">>, <<"c", "a", "n">>, <<"i">>,
     <<"m", "y">>, <<"w", "e">>, <<"o", "u", "r">>, <<"t", "h", "i", "s">>,
     <<"t", "h", "e", "s", "e">>, <<"t", "h", "o", "s", "e">>, <<"a", "m">>,
     <<"b", "e", "e", "n">>, <<"h", "a", "v", "e">>, <<"h", "a", "d">>,
     <<"d", "o">>, <<"d", "o", "e", "s">>, <<"d", "i", "d">>,
     <<"b", "u", "t">>, <<"i", "f">>, <<"o", "r">>,
     <<"b", "e", "c", "a", "u", "s", "e">>, <<"u", "n", "t", "i", "l">>,
     <<"w", "h", "i", "l", "e">>, <<"a", "b", "o", "u", "t">>,
     <<"i", "n", "t", "o">>, <<"t", "h", "r", "o", "u", "g", "h">>,
     <<"w", "a", "n", "t">>, <<"n", "e", "e", "d">>
    }

IsKeyword(word) == word \notin stopwords /\ Len(word) >= 3

\* a faulty variant: the length test is left out
KeywordsAnyLength(words) == SelectSeq(words, LAMBDA word : word \notin stopwords)

\* keywords = [word for word in words if word not in stopwords and len(word) >= 3]
Keywords(words) == SelectSeq(words, IsKeyword)

RECURSIVE UniqueKeywords(_, _)
\* the seen / unique_keywords loop: first occurrences, in order
UniqueKeywords(words, seen) ==
    IF words = <<>> THEN <<>>
    ELSE IF Head(words) \in seen THEN UniqueKeywords(Tail(words), seen)
    ELSE <<Head(words)>> \o UniqueKeywords(Tail(words), seen \cup {Head(words)})

\* a faulty variant: the slice starts at the second element
SliceSkipFirst(s, n) == SubSeq(s, 2, Min(Len(s), n))

\* s[:n] of Python: a negative n counts from the end
Slice(s, n) ==
    IF n >= 0 THEN SubSeq(s, 1, Min(Len(s), n))
    ELSE SubSeq(s, 1, Len(s) + n)

RECURSIVE Join(_)
\* ' '.join(words)
Join(words) ==
    IF words = <<>> THEN <<>>
    ELSE IF Len(words) = 1 THEN Head(words)
    ELSE Head(words) \o <<" ">> \o Join(Tail(words))

extract_keywords(text, n) ==
    Join(Slice(UniqueKeywords(Keywords(Split(Substitute(LowerText(text)))), {}), n))

DefaultMaxKeywords == 10

\* the words and separators the input texts are made of
RawWords ==
    {<<>>, <<"d", "i">>, <<"d", "i", "d">>, <<"D", "i", "d">>,
     <<"d", "d", "d">>, <<"D", "D", "D">>, <<"i", "i", "i">>, <<"i", "-", "d">>}

Separators == {" ", "!"}

RECURSIVE TextsOf(_)
\* the texts of n raw words, a separator between any two
TextsOf(n) ==
    IF n = 0 THEN {<<>>}
    ELSE IF n = 1 THEN RawWords
    ELSE {t \o <<sep>> \o w : t \in TextsOf(n - 1), sep \in Separators, w \in RawWords}

Texts == UNION {TextsOf(n) : n \in 0..MaxWords}

KeywordCaps == (0 - MaxKeywords)..MaxKeywords

KwIdle ==
    /\ kpc = "idle"
    /\ keywords = <<>>
    /\ keywords_again = <<>>

\* the state before the component is used
KwUnused == KwIdle /\ user_idea = <<>> /\ max_keywords = DefaultMaxKeywords

\* the inputs of extract_keywords
KwInputs == KwIdle /\ user_idea \in Texts /\ max_keywords \in KeywordCaps

\* extract_keywords(user_idea, max_keywords)
Extract ==
    /\ kpc = "idle"
    /\ keywords' = extract_keywords(user_idea, max_keywords)
    /\ kpc' = "once"
    /\ UNCHANGED <<user_idea, max_keywords, keywords_again>>

\* extract_keywords called on the string it returned, same max_keywords
ExtractAgain ==
    /\ kpc = "once"
    /\ keywords_again' = extract_keywords(keywords, max_keywords)
    /\ kpc' = "twice"
    /\ UNCHANGED <<user_idea, max_keywords, keywords>>

----------------------------------------------------------------------------
\* PatentParserService (parser_service.py)
\* An Optional value is <<>> for None and <<v>> for a value; a text is a
\* sequence of one-character strings; a string-valued key that is absent or
\* None holds "None".  An entry that is not a dict has dict = FALSE: calling
\* .get on it raises.

None == <<>>

Some(v) == <<v>>

\* not x, for a string-valued key
Falsy(x) == x \in {"None", ""}

RECURSIVE Strip(_)
\* str.strip()
Strip(t) ==
    IF t = <<>> THEN t
    ELSE IF Head(t) = " " THEN Strip(Tail(t))
    ELSE IF t[Len(t)] = " " THEN Strip(SubSeq(t, 1, Len(t) - 1))
    ELSE t

\* _parse_date: '%Y-%m-%d', then '%Y%m%d', else None
ParseDate(date_str) ==
    IF Falsy(date_str) THEN None
    ELSE IF date_str \in {"2020-01-15", "20200115"} THEN Some("date(2020, 1, 15)")
    ELSE None

\* assignee_name of _parse_patent_metadata
AssigneeName(assignees) ==
    IF assignees = <<>> THEN None
    ELSE IF assignees[1].assignee_organization # <<>>
         THEN Some(assignees[1].assignee_organization)
    ELSE LET name == Strip(assignees[1].assignee_first_name \o <<" ">>
                           \o assignees[1].assignee_last_name)
         IN  IF name = <<>> THEN None ELSE Some(name)

RECURSIVE JoinWith(_, _)
\* sep.join(parts)
JoinWith(sep, parts) ==
    IF parts = <<>> THEN <<>>
    ELSE IF Len(parts) = 1 THEN Head(parts)
    ELSE Head(parts) \o sep \o JoinWith(sep, Tail(parts))

\* the value None of a name key that is present (the default '' of .get
\* applies to an absent key only, which holds <<>> like the empty string)
PyNone == <<"None">>

\* a name part that is truthy
HasNamePart(x) == x \notin {<<>>, PyNone}

\* what an f-string makes of a name part
Formatted(x) == IF x = PyNone THEN <<"N", "o", "n", "e">> ELSE x

\* inventor_names of _parse_patent_metadata
InventorNames(inventors) ==
    IF inventors = <<>> THEN None
    ELSE LET named == SelectSeq(inventors,
                          LAMBDA inv : HasNamePart(inv.inventor_name_first)
                                       \/ HasNamePart(inv.inventor_name_last))
         IN  Some(JoinWith(<<",", " ">>,
                    [i \in 1..Len(named) |->
                        Strip(Formatted(named[i].inventor_name_first) \o <<" ">>
                              \o Formatted(named[i].inventor_name_last))]))

\* a .get on something that is not a dict, inside _parse_patent_metadata
MetadataRaises(raw) ==
    \/ ~raw.dict
    \/ ~Falsy(raw.patent_number) /\
          \/ raw.assignees # <<>> /\ ~raw.assignees[1].dict
          \/ \E i \in 1..Len(raw.inventors) : ~raw.inventors[i].dict

\* a faulty variant: the record is not tested for a patent_number
ParsePatentMetadataUnchecked(raw) ==
    Some([patent_number |-> raw.patent_number, title |-> raw.patent_title,
          abstract |-> raw.patent_abstract, filing_date |-> None,
          grant_date |-> None, assignee_name |-> None, inventor_names |-> None,
          raw_data |-> raw])

\* _parse_patent_metadata: None, or the ParsedPatent
ParsePatentMetadata(raw) ==
    IF Falsy(raw.patent_number) THEN None
    ELSE Some([patent_number  |-> raw.patent_number,
               title          |-> IF raw.patent_title = "absent" THEN "Untitled"
                                  ELSE raw.patent_title,
               abstract       |-> raw.patent_abstract,
               filing_date    |-> ParseDate(raw.app_date),
               grant_date     |-> ParseDate(raw.patent_date),
               assignee_name  |-> AssigneeName(raw.assignees),
               inventor_names |-> InventorNames(raw.inventors),
               raw_data       |-> raw])

\* a .get on a claims entry that is not a dict
ClaimsRaises(raw) ==
    ~Falsy(raw.patent_number) /\ \E i \in 1..Len(raw.claims) : ~raw.claims[i].dict

RECURSIVE ParseClaimsFrom(_, _, _)
\* the loop of _parse_claims from position idx on
ParseClaimsFrom(pn, raw_claims, i) ==
    IF i > Len(raw_claims) THEN <<>>
    ELSE LET claim == raw_claims[i]
             rest  == ParseClaimsFrom(pn, raw_claims, i + 1)
         IN  IF claim.claim_text \in {None, Some(<<>>)} THEN rest
             ELSE <<[patent_number |-> pn,
                     claim_number  |-> IF claim.claim_number = None THEN i
                                       ELSE claim.claim_number[1],
                     claim_text    |-> Strip(claim.claim_text[1])]>> \o rest

\* _parse_claims
ParseClaims(raw) ==
    IF Falsy(raw.patent_number) THEN <<>>
    ELSE ParseClaimsFrom(raw.patent_number, raw.claims, 1)

\* a .get on a citation entry that is not a dict
CitationsRaises(raw) ==
    ~Falsy(raw.patent_number) /\
        \/ \E i \in 1..Len(raw.cited_patents) : ~raw.cited_patents[i].dict
        \/ \E i \in 1..Len(raw.citedby_patents) : ~raw.citedby_patents[i].dict

\* faulty variant: the cited-by list is left out
ParseCitationsBackward(raw) ==
    IF Falsy(raw.patent_number) THEN <<>>
    ELSE LET cited == SelectSeq(raw.cited_patents,
                         LAMBDA c : ~Falsy(c.cited_patent_number))
         IN  [i \in 1..Len(cited) |->
                 [citing_patent |-> raw.patent_number,
                  cited_patent  |-> cited[i].cited_patent_number,
                  citation_type |-> "backward"]]

\* _parse_citations: the backward citations, then the forward ones
ParseCitations(raw) ==
    IF Falsy(raw.patent_number) THEN <<>>
    ELSE LET cited   == SelectSeq(raw.cited_patents,
                           LAMBDA c : ~Falsy(c.cited_patent_number))
             citedby == SelectSeq(raw.citedby_patents,
                           LAMBDA c : ~Falsy(c.citedby_patent_number))
         IN  [i \in 1..Len(cited) |->
                 [citing_patent |-> raw.patent_number,
                  cited_patent  |-> cited[i].cited_patent_number,
                  citation_type |-> "backward"]]
             \o
             [i \in 1..Len(citedby) |->
                 [citing_patent |-> citedby[i].citedby_patent_number,
                  cited_patent  |-> raw.patent_number,
                  citation_type |-> "forward"]]

NoOutput == [patents |-> <<>>, claims |-> <<>>, citations |-> <<>>]

\* what one iteration of the loop of parse_patents appends for a record:
\* the appends made before an exception stay
Contribution(raw) ==
    IF MetadataRaises(raw) THEN NoOutput
    ELSE LET patent == ParsePatentMetadata(raw)
         IN  IF patent = None THEN NoOutput
             ELSE IF ClaimsRaises(raw)
                  THEN [patents |-> patent, claims |-> <<>>, citations |-> <<>>]
             ELSE IF CitationsRaises(raw)
                  THEN [patents |-> patent, claims |-> ParseClaims(raw),
                        citations |-> <<>>]
             ELSE [patents |-> patent, claims |-> ParseClaims(raw),
                   citations |-> ParseCitations(raw)]

\* an exception reached the except clause of the loop
RecordRaises(raw) ==
    \/ MetadataRaises(raw)
    \/ ParsePatentMetadata(raw) # None /\ (ClaimsRaises(raw) \/ CitationsRaises(raw))

\* raw_patent.get in the except clause raises in turn
HandlerRaises(raw) == RecordRaises(raw) /\ ~raw.dict

Append3(out, c) ==
    [patents   |-> out.patents \o c.patents,
     claims    |-> out.claims \o c.claims,
     citations |-> out.citations \o c.citations]

RECURSIVE ParseAll(_)
\* the triple parse_patents returns for a batch none of whose records makes
\* the except clause raise
ParseAll(raws) ==
    IF raws = <<>> THEN NoOutput
    ELSE Append3(Contribution(Head(raws)), ParseAll(Tail(raws)))

\* the raw records parse_patents is called with
Assignee(org, first, last) ==
    [dict |-> TRUE, assignee_organization |-> org,
     assignee_first_name |-> first, assignee_last_name |-> last]

Inventor(first, last) ==
    [dict |-> TRUE, inventor_name_first |-> first, inventor_name_last |-> last]

RawClaim(number, text) == [dict |-> TRUE, claim_number |-> number, claim_text |-> text]

Cited(number) == [dict |-> TRUE, cited_patent_number |-> number]

CitedBy(number) == [dict |-> TRUE, citedby_patent_number |-> number]

\* a value that is not a dict where an entry is expected
NotADict(entry) == [entry EXCEPT !.dict = FALSE]

RawPatent(pn, title, assignees, inventors, raw_claims, cited, citedby) ==
    [dict |-> TRUE, patent_number |-> pn, patent_title |-> title,
     patent_abstract |-> "abstract", patent_date |-> "2020-01-15",
     app_date |-> "20200115", assignees |-> assignees, inventors |-> inventors,
     claims |-> raw_claims, cited_patents |-> cited, citedby_patents |-> citedby]

TwoClaims == <<RawClaim(Some(7), Some(<<"x">>)), RawClaim(None, Some(<<" ", "y">>))>>

RawPatents ==
    {\* a complete record
     RawPatent("P1", "title", <<Assignee(<<"O">>, <<>>, <<>>)>>,
               <<Inventor(<<"J">>, <<"D">>)>>, TwoClaims,
               <<Cited("P9")>>, <<CitedBy("P8")>>),
     \* a record with the number alone
     RawPatent("P2", "absent", <<>>, <<>>, <<>>, <<>>, <<>>),
     \* records without patent_number: key absent or None, and empty string
     RawPatent("None", "title", <<Assignee(<<"O">>, <<>>, <<>>)>>,
               <<Inventor(<<"J">>, <<"D">>)>>, TwoClaims,
               <<Cited("P9")>>, <<CitedBy("P8")>>),
     RawPatent("", "title", <<>>, <<>>, TwoClaims, <<Cited("P9")>>, <<>>),
     \* the first assignee is not a dict
     RawPatent("P2", "title", <<NotADict(Assignee(<<>>, <<>>, <<>>))>>, <<>>,
               TwoClaims, <<Cited("P9")>>, <<>>),
     \* the second claim is not a dict
     RawPatent("P1", "title", <<>>, <<>>,
               <<RawClaim(None, Some(<<"x">>)), NotADict(RawClaim(None, None))>>,
               <<Cited("P9")>>, <<>>),
     \* a cited-by entry is not a dict
     RawPatent("P2", "title", <<>>, <<>>, TwoClaims,
               <<Cited("P9")>>, <<NotADict(CitedBy("None"))>>),
     \* the record itself is not a dict
     NotADict(RawPatent("None", "absent", <<>>, <<>>, <<>>, <<>>, <<>>))}

RawBatches == SeqsUpTo(RawPatents, MaxRaw)

ParseIdle ==
    /\ pidx = 1
    /\ parsed = NoOutput
    /\ praised = FALSE
    /\ phist = <<>>

\* the state before the component is used
ParseUnused == ParseIdle /\ ppc = "idle" /\ raw_patents = <<>>

\* parse_patents(raw_patents) entered: three empty lists, the loop ahead
ParseInputs == ParseIdle /\ ppc = "loop" /\ raw_patents \in RawBatches

\* one iteration of the for-loop, its try / except included
ParseRecord ==
    /\ ppc = "loop"
    /\ pidx <= Len(raw_patents)
    /\ LET raw == raw_patents[pidx]
       IN  IF HandlerRaises(raw)
           THEN /\ praised' = TRUE
                /\ ppc' = "done"
                /\ UNCHANGED <<pidx, parsed, phist>>
           ELSE /\ parsed' = Append3(parsed, Contribution(raw))
                /\ phist' = Append(phist, Contribution(raw))
                /\ pidx' = pidx + 1
                /\ UNCHANGED <<ppc, praised>>
    /\ UNCHANGED raw_patents

\* return patents, claims, citations
ParseReturn ==
    /\ ppc = "loop"
    /\ pidx > Len(raw_patents)
    /\ ppc' = "done"
    /\ UNCHANGED <<raw_patents, pidx, parsed, praised, phist>>

\* parse_patents on one record at a time, with every shape of its claims,
\* inventors and citation lists up to MaxEntries entries

\* the value None of a claim_number key that is present, written as a number
\* no claim carries (.get returns it in place of the default)
NoneNumber == 0 - 1

ClaimEntries ==
    {RawClaim(n, t) :
        n \in {None, Some(7), Some(NoneNumber)},
        t \in {None, Some(<<>>), Some(<<" ">>), Some(<<"x">>),
               Some(<<" ", "y", " ">>)}}

InventorEntries ==
    {Inventor(first, last) :
        first \in {<<>>, PyNone, <<"J">>}, last \in {<<>>, PyNone, <<"D">>}}

CitedEntries == {Cited(x) : x \in {"None", "", "P1", "P9"}}

CitedByEntries == {CitedBy(x) : x \in {"None", "", "P1", "P9"}}

\* records of patent P1 that differ in their claims, in their inventors, or
\* in their two citation lists
RawRecords ==
    {RawPatent("P1", "title", <<>>, <<>>, cs, <<>>, <<>>) :
        cs \in SeqsUpTo(ClaimEntries, MaxEntries)}
    \cup
    {RawPatent("P1", "title", <<>>, invs, <<>>, <<>>, <<>>) :
        invs \in SeqsUpTo(InventorEntries, MaxEntries)}
    \cup
    {RawPatent("P1", "title", <<>>, <<>>, <<>>, cited, citedby) :
        cited \in SeqsUpTo(CitedEntries, MaxEntries),
        citedby \in SeqsUpTo(CitedByEntries, MaxEntries)}

\* parse_patents([raw]) entered
RecordInputs ==
    /\ ParseIdle
    /\ ppc = "loop"
    /\ raw_patents \in {<<raw>> : raw \in RawRecords}

----------------------------------------------------------------------------
\* The pipeline handlers: ingest_and_store_patents_handler (mcp_server.py)
\* and PatentSearch.post (api.py).  Each calls fetch_by_user_idea, then
\* parse_patents, then load_patents; the steps of the three callees are the
\* actions above.

DefaultMaxResults == 100

NoResponse == [kind |-> "none", status |-> 0, counts |-> {}]

\* a text report of the tool server; counts holds the numbers it states
Report(counts) == [kind |-> "report", status |-> 0, counts |-> counts]

\* a JSON body of the HTTP API with its status code
Json(status, counts) == [kind |-> "json", status |-> status, counts |-> counts]

NoArguments ==
    [present |-> FALSE, has_idea |-> FALSE, user_idea |-> <<>>,
     max_results |-> DefaultMaxResults, store |-> FALSE]

\* the idea texts: empty, a stop-word alone, a keyword and a short word
PipeIdeas == {<<>>, <<"d", "i", "d">>, <<"d", "d", "d", " ", "D", "i">>}

HandlerArguments(h) ==
    {NoArguments, [NoArguments EXCEPT !.present = TRUE]}
    \cup {[present |-> TRUE, has_idea |-> TRUE, user_idea |-> t,
           max_results |-> m, store |-> st] :
            t \in PipeIdeas,
            m \in IF h = "search" THEN {DefaultMaxResults} ELSE {1, DefaultMaxResults},
            st \in IF h = "search" THEN BOOLEAN ELSE {TRUE}}

\* the input checks at the head of the two handlers
Rejects(h, args) ==
    IF h = "search"
    THEN ~args.present \/ ~args.has_idea
    ELSE ~args.present \/ ~args.has_idea \/ args.user_idea = <<>>

\* the raw record the search service lists on page p
ServiceRecord(p) ==
    IF p = 1
    THEN RawPatent("P1", "title", <<Assignee(<<"O">>, <<>>, <<>>)>>,
                   <<Inventor(<<"J">>, <<"D">>)>>, TwoClaims,
                   <<Cited("P9")>>, <<CitedBy("P8")>>)
    ELSE IF p = 2
    THEN RawPatent("None", "title", <<>>, <<>>, TwoClaims, <<Cited("P9")>>, <<>>)
    ELSE RawPatent("P2", "absent", <<>>, <<>>, <<>>, <<>>, <<>>)

\* a store that an earlier run filled with the record of page 1
SeededStore ==
    LET raw == ServiceRecord(1)
        t1  == UpsertPatent(EmptyStore, ParsePatentMetadata(raw)[1])
        t2  == InsertClaims(t1, ClaimsData(1, ParseClaims(raw)))
        t3  == InsertCitation(t2, ParseCitations(raw)[1])
    IN  InsertCitation(t3, ParseCitations(raw)[2])

PipeStores == {EmptyStore, SeededStore}

\* a request arrives at one of the handlers, on a store that may hold rows
PipeInputs ==
    /\ db \in PipeStores
    /\ tx = db
    /\ latest = [pn \in PatentNumbers |->
                    IF \E r \in db.patents : r.patent_number = pn
                    THEN <<ParsePatentMetadata(ServiceRecord(1))[1]>> ELSE <<>>]
    /\ LoadIdle
    /\ hpc = "start"
    /\ handler \in {"ingest_and_store", "search"}
    /\ arguments \in HandlerArguments(handler)
    /\ response = NoResponse
    /\ hraised = FALSE
    /\ store_before = db

\* the state before the component is used
PipeUnused ==
    /\ hpc = "idle"
    /\ handler = "none"
    /\ arguments = NoArguments
    /\ response = NoResponse
    /\ hraised = FALSE
    /\ store_before = EmptyStore

\* the handler returns (or raises) and the request is over
Respond(r, exc) ==
    /\ response' = r
    /\ hraised' = exc
    /\ hpc' = "done"
    /\ UNCHANGED <<handler, arguments, store_before>>

\* raise ValueError(...) of the tool handler / the 400 of the API
HandlerReject ==
    /\ hpc = "start"
    /\ Rejects(handler, arguments)
    /\ IF handler = "search"
       THEN Respond(Json(400, {}), FALSE)
       ELSE Respond(NoResponse, TRUE)
    /\ UNCHANGED <<loadVars, fetchVars, kwVars, parseVars, concVars, rpcVars>>

\* ingestion.fetch_by_user_idea(user_idea): extract_keywords, build the
\* query, enter fetch_patents_by_query with the default max_pages
HandlerFetch ==
    /\ hpc = "start"
    /\ ~Rejects(handler, arguments)
    /\ user_idea' = arguments.user_idea
    /\ max_keywords' = DefaultMaxKeywords
    /\ keywords' = extract_keywords(arguments.user_idea, DefaultMaxKeywords)
    /\ kpc' = "once"
    /\ FetchEntry(DefaultMaxPages)
    /\ hpc' = "fetch"
    /\ UNCHANGED <<loadVars, parseVars, concVars, rpcVars, keywords_again, handler,
                   arguments, response, hraised, store_before>>

\* raw_patents as the handler holds it after the fetch
Fetched ==
    IF handler = "search" THEN fresult
    ELSE Slice(fresult, arguments.max_results)

\* faulty variant: the handler goes on with an empty list
NoPatentsNever(raw) == FALSE

\* if not raw_patents
NoPatents(raw) == raw = <<>>

\* if not raw_patents: return the "no patents" response
HandlerNoPatents ==
    /\ hpc = "fetch"
    /\ fpc = "done"
    /\ NoPatents(Fetched)
    /\ IF handler = "search"
       THEN Respond(Json(200, {<<"patents", 0>>}), FALSE)
       ELSE Respond(Report({<<"fetched", 0>>}), FALSE)
    /\ UNCHANGED <<loadVars, fetchVars, kwVars, parseVars, concVars, rpcVars>>

\* parser.parse_patents(raw_patents) is entered
HandlerParse ==
    /\ hpc = "fetch"
    /\ fpc = "done"
    /\ ~NoPatents(Fetched)
    /\ raw_patents' = [i \in 1..Len(Fetched) |-> ServiceRecord(Fetched[i].page)]
    /\ ppc' = "loop"
    /\ pidx' = 1
    /\ parsed' = NoOutput
    /\ praised' = FALSE
    /\ phist' = <<>>
    /\ hpc' = "parse"
    /\ UNCHANGED <<loadVars, fetchVars, kwVars, concVars, rpcVars, handler, arguments,
                   response, hraised, store_before>>

\* the API called without store: the response without a load
HandlerNoStore ==
    /\ hpc = "parse"
    /\ ppc = "done"
    /\ ~praised
    /\ handler = "search"
    /\ ~arguments.store
    /\ Respond(Json(200, {<<"patents_found", Len(parsed.patents)>>,
                          <<"patents_stored", 0>>}), FALSE)
    /\ UNCHANGED <<loadVars, fetchVars, kwVars, parseVars, concVars, rpcVars>>

\* loader.load_patents(patents, claims, citations) is entered
HandlerLoad ==
    /\ hpc = "parse"
    /\ ppc = "done"
    /\ ~praised
    /\ handler = "ingest_and_store" \/ arguments.store
    /\ Call(parsed.patents, parsed.claims, parsed.citations, FALSE)
    /\ hpc' = "load"
    /\ UNCHANGED <<fetchVars, kwVars, parseVars, concVars, rpcVars, handler, arguments,
                   response, hraised, store_before>>

\* the numbers both handlers state after the parse
ParsedCounts ==
    {<<"fetched", Len(Fetched)>>, <<"parsed", Len(parsed.patents)>>,
     <<"claims", Len(parsed.claims)>>, <<"citations", Len(parsed.citations)>>}

\* after load_patents: the tool handler adds the counts and the statistics of
\* get_connection_stats (absent keys read as 0 when that call fails), or the
\* error text when load_patents raised; the API answers 200, or 500 when
\* load_patents raised
HandlerRespond ==
    /\ hpc = "load"
    /\ pc = "done"
    /\ IF handler = "search"
       THEN IF raised
            THEN Respond(Json(500, {}), FALSE)
            ELSE Respond(Json(200, {<<"patents_found", Len(parsed.patents)>>,
                                    <<"patents_stored", result.patents>>}), FALSE)
       ELSE IF raised
            THEN Respond(Report(ParsedCounts), FALSE)
            ELSE \E stats_ok \in BOOLEAN :
                    Respond(Report(ParsedCounts \cup
                        {<<"inserted_patents", result.patents>>,
                         <<"inserted_claims", result.claims>>,
                         <<"inserted_citations", result.citations>>,
                         <<"total_patents",
                           IF stats_ok THEN Cardinality(db.patents) ELSE 0>>,
                         <<"total_claims",
                           IF stats_ok THEN BagCardinality(db.claims) ELSE 0>>,
                         <<"total_citations",
                           IF stats_ok THEN Cardinality(db.citations) ELSE 0>>}),
                        FALSE)
    /\ UNCHANGED <<loadVars, fetchVars, kwVars, parseVars, concVars, rpcVars>>

----------------------------------------------------------------------------
\* Two connections running load_patents concurrently for the same patent.
\* The database runs each statement at READ COMMITTED, the default of a
\* psycopg2 connection: a statement sees the rows committed before it began
\* plus its own transaction's writes; a row written by a transaction still
\* open is locked, and a statement that needs it waits for that transaction
\* to end.  Both loads pass patents = [P1], their own claims for P1, and no
\* citations; no database call fails here.

Loaders == {1, 2}

Other(l) == CHOOSE q \in Loaders : q # l

\* the claims arguments the two loads may pass
ClaimBatches ==
    {<<ParsedClaim("P1", 1, "x"), ParsedClaim("P1", 2, "y")>>,
     <<ParsedClaim("P1", 2, "z")>>,
     <<ParsedClaim("P1", 1, "x")>>}

\* the patents argument of loader l
ConcPatent(l) == ParsedPatent("P1", IF l = 1 THEN "a" ELSE "b")

NoWrites == [patent |-> <<>>, deleted |-> {}, inserted |-> {}]

\* a patents.claims row with its serial id
ClaimRow(rid, data) ==
    [rid |-> rid, patent_id |-> data.patent_id,
     claim_number |-> data.claim_number, claim_text |-> data.claim_text]

\* the committed tables before the two loads: empty, or P1 with one claim
ConcStores ==
    {[patents |-> {}, claims |-> {}],
     [patents |-> {PatentRow(1, ParsedPatent("P1", "a"))},
      claims  |-> {ClaimRow(1, [patent_id |-> 1, claim_number |-> 9,
                                claim_text |-> "old"])}]}

ConcUnused ==
    /\ cstore = [patents |-> {}, claims |-> {}]
    /\ cpc = [l \in Loaders |-> "idle"]
    /\ cbatch = [l \in Loaders |-> <<>>]
    /\ cwrites = [l \in Loaders |-> NoWrites]
    /\ csnap = [l \in Loaders |-> {}]
    /\ cpid = [l \in Loaders |-> 0]
    /\ next_rid = 1
    /\ chist = [overlap |-> FALSE, committed |-> <<>>]

\* two callers, each about to call load_patents with its own claims for P1
ConcInputs ==
    /\ cstore \in ConcStores
    /\ cpc = [l \in Loaders |-> "idle"]
    /\ cbatch \in [Loaders -> ClaimBatches]
    /\ cbatch[1] # cbatch[2]
    /\ cwrites = [l \in Loaders |-> NoWrites]
    /\ csnap = [l \in Loaders |-> {}]
    /\ cpid = [l \in Loaders |-> 0]
    /\ next_rid = Cardinality(cstore.claims) + 1
    /\ chist = [overlap |-> FALSE, committed |-> <<>>]

Running(l) == cpc[l] \notin {"idle", "done"}

\* load_patents is entered and connects
ConcStart(l) ==
    /\ cpc[l] = "idle"
    /\ cpc' = [cpc EXCEPT ![l] = "patents"]
    /\ chist' = [chist EXCEPT !.overlap = @ \/ Running(Other(l))]
    /\ UNCHANGED <<cstore, cbatch, cwrites, csnap, cpid, next_rid>>

\* phase 1: the upsert of P1; it waits while the other transaction holds an
\* uncommitted write of the same patent_number
ConcUpsert(l) ==
    /\ cpc[l] = "patents"
    /\ cwrites[Other(l)].patent = <<>>
    /\ cwrites' = [cwrites EXCEPT ![l].patent = <<ConcPatent(l)>>]
    /\ cpc' = [cpc EXCEPT ![l] = "commit_patents"]
    /\ UNCHANGED <<cstore, cbatch, csnap, cpid, next_rid, chist>>

\* conn.commit() after phase 1
ConcCommitPatents(l) ==
    /\ cpc[l] = "commit_patents"
    /\ cstore' = UpsertPatent(cstore, cwrites[l].patent[1])
    /\ cwrites' = [cwrites EXCEPT ![l] = NoWrites]
    /\ cpc' = [cpc EXCEPT ![l] = "claims_select"]
    /\ UNCHANGED <<cbatch, csnap, cpid, next_rid, chist>>

\* SELECT id FROM patents.patents WHERE patent_number = %s
ConcSelect(l) ==
    /\ cpc[l] = "claims_select"
    /\ cpid' = [cpid EXCEPT ![l] = SelectPatentId(cstore, "P1")[1]]
    /\ cpc' = [cpc EXCEPT ![l] = "claims_delete"]
    /\ UNCHANGED <<cstore, cbatch, cwrites, csnap, next_rid, chist>>

\* faulty variant: the DELETE matches no row
VisibleClaimsNone(l) == {}

\* the committed claims rows WHERE patent_id = %s
VisibleClaims(l) == {x \in cstore.claims : x.patent_id = cpid[l]}

\* the DELETE statement begins: it sees the committed rows of the patent
ConcDeleteBegin(l) ==
    /\ cpc[l] = "claims_delete"
    /\ csnap' = [csnap EXCEPT ![l] = {r.rid : r \in VisibleClaims(l)}]
    /\ cpc' = [cpc EXCEPT ![l] = "claims_deleting"]
    /\ UNCHANGED <<cstore, cbatch, cwrites, cpid, next_rid, chist>>

\* none of the rows the DELETE of l sees is locked by the other transaction
RowsFree(l) == csnap[l] \cap cwrites[Other(l)].deleted = {}

\* the DELETE statement ends, once no row it sees is locked: it deletes the
\* rows it saw that still exist
ConcDeleteEnd(l) ==
    /\ cpc[l] = "claims_deleting"
    /\ RowsFree(l)
    /\ cwrites' = [cwrites EXCEPT ![l].deleted =
                      {r.rid : r \in {x \in cstore.claims : x.rid \in csnap[l]}}]
    /\ csnap' = [csnap EXCEPT ![l] = {}]
    /\ cpc' = [cpc EXCEPT ![l] = "claims_insert"]
    /\ UNCHANGED <<cstore, cbatch, cpid, next_rid, chist>>

\* execute_values(INSERT INTO patents.claims ...)
ConcInsert(l) ==
    /\ cpc[l] = "claims_insert"
    /\ LET claims_data == ClaimsData(cpid[l], cbatch[l])
       IN  /\ cwrites' = [cwrites EXCEPT ![l].inserted =
                  {ClaimRow(next_rid + i - 1, claims_data[i]) :
                      i \in 1..Len(claims_data)}]
           /\ next_rid' = next_rid + Len(claims_data)
    /\ cpc' = [cpc EXCEPT ![l] = "commit_claims"]
    /\ UNCHANGED <<cstore, cbatch, csnap, cpid, chist>>

\* conn.commit() after phase 2
ConcCommitClaims(l) ==
    /\ cpc[l] = "commit_claims"
    /\ cstore' = [cstore EXCEPT !.claims =
                    {r \in @ : r.rid \notin cwrites[l].deleted}
                    \cup cwrites[l].inserted]
    /\ cwrites' = [cwrites EXCEPT ![l] = NoWrites]
    /\ chist' = [chist EXCEPT !.committed = Append(@, l)]
    /\ cpc' = [cpc EXCEPT ![l] = "citations"]
    /\ UNCHANGED <<cbatch, csnap, cpid, next_rid>>

\* phase 3 with no citations, the last commit, close and return
ConcFinish(l) ==
    /\ cpc[l] = "citations"
    /\ cpc' = [cpc EXCEPT ![l] = "done"]
    /\ UNCHANGED <<cstore, cbatch, cwrites, csnap, cpid, next_rid, chist>>

----------------------------------------------------------------------------
\* The JSON-RPC server (mcp_server.py): handle_client on one connection and
\* handle_json_rpc.  A tool handler is seen by its outcome, a returned list
\* or an exception.  The peer may go away at any time: the transport is then
\* lost, a write to it is discarded and drain raises ConnectionResetError.
\* The task may be cancelled (shutdown) while it waits in read or drain.

ToolNames ==
    {"extract_keywords_from_idea", "fetch_patents_by_idea",
     "ingest_and_store_patents", "fetch_patents_by_assignee",
     "get_database_stats"}

\* the params member of a request: a dict with or without a name, or not a dict
RpcParams ==
    {[dict |-> d, name |-> n] :
        d \in BOOLEAN, n \in {"None", "ingest_and_store_patents",
                              "get_database_stats", "bogus"}}

\* a decoded value that is no dict (also: no request decoded yet)
NoRequest ==
    [dict |-> FALSE, method |-> "", params |-> [dict |-> FALSE, name |-> "None"],
     id |-> "None"]

\* what json.loads can return: a request object, or a value that is no dict
RpcRequests ==
    {[dict |-> TRUE, method |-> m, params |-> ps, id |-> i] :
        m \in {"", "mcp.listTools", "mcp.callTool", "mcp.other"},
        ps \in RpcParams, i \in {"None", "1"}}
    \cup {NoRequest}

\* what reader.read(4096) can return: nothing, bytes that are not UTF-8, text
\* that is not JSON, or the text of a JSON value
RpcData ==
    {[kind |-> k, value |-> NoRequest] : k \in {"empty", "undecodable", "malformed"}}
    \cup {[kind |-> "json", value |-> r] : r \in RpcRequests}

NoData == [kind |-> "none", value |-> NoRequest]

ResultResponse(id) == [jsonrpc |-> "2.0", id |-> id, member |-> "result", code |-> 0]

ErrorResponse(id, code) ==
    [jsonrpc |-> "2.0", id |-> id, member |-> "error", code |-> code]

\* handle_json_rpc: the response it returns, or the exception it lets out.
\* A request that is no dict makes request.get raise before request_id is
\* bound, and the except clause then raises on reading request_id.
HandleJsonRpc(request, outcome) ==
    IF ~request.dict THEN [raised |-> TRUE, response |-> <<>>]
    ELSE [raised |-> FALSE,
          response |-> <<
            IF request.method = "mcp.listTools" THEN ResultResponse(request.id)
            ELSE IF request.method = "mcp.callTool"
                 THEN IF /\ request.params.dict
                         /\ request.params.name \in ToolNames
                         /\ outcome = "returns"
                      THEN ResultResponse(request.id)
                      ELSE ErrorResponse(request.id, 0 - 32603)
            ELSE ErrorResponse(request.id, 0 - 32603)>>]

\* faulty variant: the except clauses of handle_client write nothing
ExceptReplyNone(code) == <<>>

\* what an except clause of handle_client writes
ExceptReply(code) == <<ErrorResponse("None", code)>>

NoRpcHist ==
    [outcome |-> "none", lost |-> FALSE, cancelled |-> FALSE, raised |-> FALSE]

\* the state before the component is used
RpcUnused ==
    /\ rpc_pc = "idle"
    /\ rpc_data = NoData
    /\ rpc_request = NoRequest
    /\ rpc_response = <<>>
    /\ rpc_written = <<>>
    /\ rpc_transport = "none"
    /\ rpc_hist = NoRpcHist

\* a client has connected and handle_client is about to read
RpcInputs ==
    /\ rpc_pc = "read"
    /\ rpc_data = NoData
    /\ rpc_request = NoRequest
    /\ rpc_response = <<>>
    /\ rpc_written = <<>>
    /\ rpc_transport = "open"
    /\ rpc_hist = NoRpcHist

\* writer.write(...): the transport takes the bytes unless it is lost
Written(w, r) == IF rpc_transport = "open" THEN w \o r ELSE w

\* data = await reader.read(4096); if not data: return
RpcRead ==
    /\ rpc_pc = "read"
    /\ \E d \in RpcData :
          /\ rpc_data' = d
          /\ rpc_pc' = IF d.kind = "empty" THEN "closing" ELSE "loads"
    /\ UNCHANGED <<rpc_request, rpc_response, rpc_written, rpc_transport, rpc_hist>>

\* request = json.loads(data.decode()), and the except clause it may enter
RpcLoads ==
    /\ rpc_pc = "loads"
    /\ IF rpc_data.kind = "malformed"
       THEN /\ rpc_response' = ExceptReply(0 - 32700)
            /\ rpc_pc' = "except_write"
            /\ UNCHANGED rpc_request
       ELSE IF rpc_data.kind = "undecodable"
       THEN /\ rpc_response' = ExceptReply(0 - 32000)
            /\ rpc_pc' = "except_write"
            /\ UNCHANGED rpc_request
       ELSE /\ rpc_request' = rpc_data.value
            /\ rpc_pc' = "dispatch"
            /\ UNCHANGED rpc_response
    /\ UNCHANGED <<rpc_data, rpc_written, rpc_transport, rpc_hist>>

\* response = await handle_json_rpc(request)
RpcDispatch ==
    /\ rpc_pc = "dispatch"
    /\ \E outcome \in {"returns", "raises"} :
          LET r == HandleJsonRpc(rpc_request, outcome)
          IN  /\ rpc_hist' = [rpc_hist EXCEPT !.outcome = outcome]
              /\ IF r.raised
                 THEN /\ rpc_response' = ExceptReply(0 - 32000)
                      /\ rpc_pc' = "except_write"
                 ELSE /\ rpc_response' = r.response
                      /\ rpc_pc' = "write"
    /\ UNCHANGED <<rpc_data, rpc_request, rpc_written, rpc_transport>>

\* writer.write(json.dumps(response).encode() + b'\n')
RpcWrite ==
    /\ rpc_pc = "write"
    /\ rpc_written' = Written(rpc_written, rpc_response)
    /\ rpc_pc' = "drain"
    /\ UNCHANGED <<rpc_data, rpc_request, rpc_response, rpc_transport, rpc_hist>>

\* await writer.drain(): on a lost transport it raises and the generic
\* except clause is entered
RpcDrain ==
    /\ rpc_pc = "drain"
    /\ IF rpc_transport = "lost"
       THEN /\ rpc_response' = ExceptReply(0 - 32000)
            /\ rpc_pc' = "except_write"
       ELSE /\ rpc_pc' = "closing"
            /\ UNCHANGED rpc_response
    /\ UNCHANGED <<rpc_data, rpc_request, rpc_written, rpc_transport, rpc_hist>>

\* writer.write(...) inside an except clause
RpcExceptWrite ==
    /\ rpc_pc = "except_write"
    /\ rpc_written' = Written(rpc_written, rpc_response)
    /\ rpc_pc' = "except_drain"
    /\ UNCHANGED <<rpc_data, rpc_request, rpc_response, rpc_transport, rpc_hist>>

\* await writer.drain() inside an except clause: on a lost transport the
\* exception leaves handle_client once the finally clause has run
RpcExceptDrain ==
    /\ rpc_pc = "except_drain"
    /\ rpc_hist' = [rpc_hist EXCEPT !.raised = (rpc_transport = "lost")]
    /\ rpc_pc' = "closing"
    /\ UNCHANGED <<rpc_data, rpc_request, rpc_response, rpc_written, rpc_transport>>

\* finally: writer.close(); await writer.wait_closed()
RpcClose ==
    /\ rpc_pc = "closing"
    /\ rpc_transport' = "closed"
    /\ rpc_pc' = "closed"
    /\ UNCHANGED <<rpc_data, rpc_request, rpc_response, rpc_written, rpc_hist>>

\* the peer goes away
RpcLost ==
    /\ rpc_transport = "open"
    /\ rpc_pc \notin {"idle", "closed"}
    /\ rpc_transport' = "lost"
    /\ rpc_hist' = [rpc_hist EXCEPT !.lost = TRUE]
    /\ UNCHANGED <<rpc_pc, rpc_data, rpc_request, rpc_response, rpc_written>>

\* the task is cancelled while it waits: CancelledError passes the except
\* clauses and the finally clause runs
RpcCancel ==
    /\ rpc_pc \in {"read", "drain", "except_drain"}
    /\ rpc_hist' = [rpc_hist EXCEPT !.cancelled = TRUE]
    /\ rpc_pc' = "closing"
    /\ UNCHANGED <<rpc_data, rpc_request, rpc_response, rpc_written, rpc_transport>>

----------------------------------------------------------------------------
\* Specifications

Init == LoadInit /\ FetchIdle /\ KwUnused /\ ParseUnused /\ PipeUnused /\ ConcUnused /\ RpcUnused

\* the loader alone
Next ==
    \/ Load /\ UNCHANGED loadFrame
    \/ Reload /\ UNCHANGED loadFrame
    \/ Connect /\ UNCHANGED loadFrame
    \/ InsertPatent /\ UNCHANGED loadFrame
    \/ CommitPatents /\ UNCHANGED loadFrame
    \/ ClaimsSelect /\ UNCHANGED loadFrame
    \/ ClaimsDelete /\ UNCHANGED loadFrame
    \/ ClaimsInsert /\ UNCHANGED loadFrame
    \/ CommitClaims /\ UNCHANGED loadFrame
    \/ InsertCitationRow /\ UNCHANGED loadFrame
    \/ CommitCitations /\ UNCHANGED loadFrame
    \/ DbError /\ UNCHANGED loadFrame
    \/ DbErrorRollbackFails /\ UNCHANGED loadFrame

Spec == Init /\ [][Next]_vars

\* the fetcher alone
FetchOnly ==
    \/ FetchCall /\ UNCHANGED fetchFrame
    \/ Post /\ UNCHANGED fetchFrame
    \/ TransportError /\ UNCHANGED fetchFrame
    \/ JsonError /\ UNCHANGED fetchFrame
    \/ FirstResponse /\ UNCHANGED fetchFrame
    \/ LaterResponse /\ UNCHANGED fetchFrame

FetchSpec == Init /\ [][FetchOnly]_vars

\* extract_keywords alone, over all input texts and max_keywords values
ExtractInit == LoadInit /\ FetchIdle /\ KwInputs /\ ParseUnused /\ PipeUnused /\ ConcUnused /\ RpcUnused

ExtractNext ==
    \/ Extract /\ UNCHANGED kwFrame
    \/ ExtractAgain /\ UNCHANGED kwFrame

ExtractSpec == ExtractInit /\ [][ExtractNext]_vars

\* parse_patents alone, over the batches of raw records
ParseInit == LoadInit /\ FetchIdle /\ KwUnused /\ ParseInputs /\ PipeUnused /\ ConcUnused /\ RpcUnused

ParseNext ==
    \/ ParseRecord /\ UNCHANGED parseFrame
    \/ ParseReturn /\ UNCHANGED parseFrame

ParseSpec == ParseInit /\ [][ParseNext]_vars

\* one request through a pipeline handler and its three callees
PipeInit == FetchIdle /\ KwUnused /\ ParseUnused /\ PipeInputs /\ ConcUnused /\ RpcUnused

PipeNext ==
    \/ HandlerReject
    \/ HandlerFetch
    \/ Post /\ UNCHANGED fetchFrame
    \/ TransportError /\ UNCHANGED fetchFrame
    \/ JsonError /\ UNCHANGED fetchFrame
    \/ FirstResponse /\ UNCHANGED fetchFrame
    \/ LaterResponse /\ UNCHANGED fetchFrame
    \/ HandlerNoPatents
    \/ HandlerParse
    \/ ParseRecord /\ UNCHANGED parseFrame
    \/ ParseReturn /\ UNCHANGED parseFrame
    \/ HandlerNoStore
    \/ HandlerLoad
    \/ Connect /\ UNCHANGED loadFrame
    \/ InsertPatent /\ UNCHANGED loadFrame
    \/ CommitPatents /\ UNCHANGED loadFrame
    \/ ClaimsSelect /\ UNCHANGED loadFrame
    \/ ClaimsDelete /\ UNCHANGED loadFrame
    \/ ClaimsInsert /\ UNCHANGED loadFrame
    \/ CommitClaims /\ UNCHANGED loadFrame
    \/ InsertCitationRow /\ UNCHANGED loadFrame
    \/ CommitCitations /\ UNCHANGED loadFrame
    \/ DbError /\ UNCHANGED loadFrame
    \/ DbErrorRollbackFails /\ UNCHANGED loadFrame
    \/ HandlerRespond

PipeSpec == PipeInit /\ [][PipeNext]_vars

\* parse_patents on single records
RecordInit ==
    LoadInit /\ FetchIdle /\ KwUnused /\ RecordInputs /\ PipeUnused /\ ConcUnused /\ RpcUnused

RecordSpec == RecordInit /\ [][ParseNext]_vars

\* one connection of the JSON-RPC server; the event loop runs the task of
\* handle_client until it ends
RpcInit ==
    LoadInit /\ FetchIdle /\ KwUnused /\ ParseUnused /\ PipeUnused /\ ConcUnused
    /\ RpcInputs

RpcStep ==
    \/ RpcRead /\ UNCHANGED rpcFrame
    \/ RpcLoads /\ UNCHANGED rpcFrame
    \/ RpcDispatch /\ UNCHANGED rpcFrame
    \/ RpcWrite /\ UNCHANGED rpcFrame
    \/ RpcDrain /\ UNCHANGED rpcFrame
    \/ RpcExceptWrite /\ UNCHANGED rpcFrame
    \/ RpcExceptDrain /\ UNCHANGED rpcFrame
    \/ RpcClose /\ UNCHANGED rpcFrame

RpcNext ==
    \/ RpcRead /\ UNCHANGED rpcFrame
    \/ RpcLoads /\ UNCHANGED rpcFrame
    \/ RpcDispatch /\ UNCHANGED rpcFrame
    \/ RpcWrite /\ UNCHANGED rpcFrame
    \/ RpcDrain /\ UNCHANGED rpcFrame
    \/ RpcExceptWrite /\ UNCHANGED rpcFrame
    \/ RpcExceptDrain /\ UNCHANGED rpcFrame
    \/ RpcClose /\ UNCHANGED rpcFrame
    \/ RpcLost /\ UNCHANGED rpcFrame
    \/ RpcCancel /\ UNCHANGED rpcFrame

RpcSpec == RpcInit /\ [][RpcNext]_vars /\ WF_vars(RpcStep)

\* two concurrent loads for the same patent
ConcInit ==
    LoadInit /\ FetchIdle /\ KwUnused /\ ParseUnused /\ PipeUnused /\ ConcInputs
    /\ RpcUnused

ConcNext ==
    \/ \E l \in Loaders : ConcStart(l) /\ UNCHANGED concFrame
    \/ \E l \in Loaders : ConcUpsert(l) /\ UNCHANGED concFrame
    \/ \E l \in Loaders : ConcCommitPatents(l) /\ UNCHANGED concFrame
    \/ \E l \in Loaders : ConcSelect(l) /\ UNCHANGED concFrame
    \/ \E l \in Loaders : ConcDeleteBegin(l) /\ UNCHANGED concFrame
    \/ \E l \in Loaders : ConcDeleteEnd(l) /\ UNCHANGED concFrame
    \/ \E l \in Loaders : ConcInsert(l) /\ UNCHANGED concFrame
    \/ \E l \in Loaders : ConcCommitClaims(l) /\ UNCHANGED concFrame
    \/ \E l \in Loaders : ConcFinish(l) /\ UNCHANGED concFrame

ConcSpec == ConcInit /\ [][ConcNext]_vars

----------------------------------------------------------------------------
\* Observations used by the properties

Max(a, b) == IF a >= b THEN a ELSE b

RECURSIVE Flatten(_)
\* the concatenation of a sequence of lists
Flatten(ss) == IF ss = <<>> THEN <<>> ELSE Head(ss) \o Flatten(Tail(ss))

\* the rows of patents.patents with a given patent_number
RowsOf(t, pn) == {r \in t.patents : r.patent_number = pn}

\* the (claim_number, claim_text) bag stored for a patent_number
StoredClaims(t, pn) ==
    LET row  == SelectPatentId(t, pn)
        mine == IF row = <<>> THEN {}
                ELSE {c \in BagToSet(t.claims) : c.patent_id = row[1]}
    IN  [k \in {[claim_number |-> c.claim_number, claim_text |-> c.claim_text]
                  : c \in mine}
            |-> t.claims[[patent_id    |-> row[1],
                          claim_number |-> k.claim_number,
                          claim_text   |-> k.claim_text]]]

\* the (claim_number, claim_text) bag a claims list carries for a patent_number
BatchClaims(cs, pn) ==
    LET g == GroupClaims(cs, pn)
    IN  SeqToBag([i \in 1..Len(g) |->
                    [claim_number |-> g[i].claim_number,
                     claim_text   |-> g[i].claim_text]])

\* the patent_numbers of a patents list
NumbersOf(ps) == {ps[i].patent_number : i \in 1..Len(ps)}

\* the current load_patents call has returned without any database error
LoadedOk == pc = "done" /\ hist.loads > 0 /\ hist.failed = "none" /\ patents # <<>>

\* the phases that run up to and including phase k
PhasesUpTo(k) ==
    CASE k = "patents"   -> {"patents"}
      [] k = "claims"    -> {"patents", "claims"}
      [] k = "citations" -> {"patents", "claims", "citations"}

\* every patent of the batch is stored as its last occurrence in the batch
PatentsWritten(t) ==
    \A pn \in NumbersOf(patents) :
        \E r \in t.patents : r = PatentRow(r.id, LastLoaded(latest, patents)[pn][1])

\* every claim group of the batch whose patent has a row is stored
ClaimsWritten(t) ==
    \A pn \in Range(GroupKeys(claims)) :
        SelectPatentId(t, pn) # <<>> => StoredClaims(t, pn) = BatchClaims(claims, pn)

----------------------------------------------------------------------------
\* Properties of the loader (checked under Spec)

\* C1: the patents table holds exactly one row for every patent_number a
\* committed phase 1 carried and none for the others, and every attribute of
\* the row is that of the patent last loaded with the number, also when the
\* number occurs twice in one batch.
ThmC1 ==
    \A pn \in PatentNumbers :
        IF latest[pn] = <<>>
        THEN RowsOf(db, pn) = {}
        ELSE /\ Cardinality(RowsOf(db, pn)) = 1
             /\ \A r \in RowsOf(db, pn) : r = PatentRow(r.id, latest[pn][1])

\* C1 witness: a second load, carrying one patent_number twice with different
\* attributes, has returned on a store that already held patents
WitC1 ==
    /\ LoadedOk
    /\ hist.loads = 2
    /\ hist.pre.patents # {}
    /\ Len(patents) = 2
    /\ patents[1].patent_number = patents[2].patent_number
    /\ patents[1] # patents[2]

\* C2 as stated: after a load of patent P with claim set S2 on a store that
\* held another claim set S1 for P, the store holds exactly S2 for P.
CexC2 ==
    LoadedOk =>
        \A pn \in NumbersOf(patents) :
            (/\ SelectPatentId(hist.pre, pn) # <<>>
             /\ StoredClaims(hist.pre, pn) # BatchClaims(claims, pn))
                => StoredClaims(db, pn) = BatchClaims(claims, pn)

\* C2 amended: after a load of patent P with a non-empty claim set S2 the
\* store holds exactly S2 for P; after a load of P with an empty claim set the
\* store holds for P what it held before.
ThmC2 ==
    LoadedOk =>
        \A pn \in NumbersOf(patents) :
            IF BatchClaims(claims, pn) # EmptyBag
            THEN StoredClaims(db, pn) = BatchClaims(claims, pn)
            ELSE StoredClaims(db, pn) = StoredClaims(hist.pre, pn)

\* C2 witness: P held claims 1 and 2 and is loaded again with claim 2 alone
WitC2 ==
    /\ LoadedOk
    /\ \E pn \in NumbersOf(patents) :
          /\ BagCardinality(StoredClaims(hist.pre, pn)) = 2
          /\ BagCardinality(BatchClaims(claims, pn)) = 1
          /\ StoredClaims(db, pn) = BatchClaims(claims, pn)

\* C3 as stated: the citations count a load returns is the number of
\* citation rows the load added to the store.
CexC3 ==
    (pc = "done" /\ hist.loads > 0) =>
        /\ hist.pre.citations \subseteq db.citations
        /\ result.citations = Cardinality(db.citations \ hist.pre.citations)

\* C4: a load repeated with the same arguments after a load that returned
\* without error leaves, at every commit, the tables the first one left.
ThmC4 == (hist.repeat /\ hist.prevOk) => db = hist.pre

\* C4 witness: the repeated load of a batch with two patents, claims and
\* citations has returned without error on a store the first load filled
WitC4 ==
    /\ LoadedOk
    /\ hist.repeat
    /\ hist.prevOk
    /\ Len(patents) = 2
    /\ claims # <<>>
    /\ citations # <<>>
    /\ db.claims # EmptyBag
    /\ db.citations # {}

\* C5: when a database call of phase k raised, the committed tables are those
\* of the start of phase k (the writes of phase k are gone, those of the
\* phases before stand) and no phase after k was entered.
ThmC5 ==
    (pc = "done" /\ hist.failed \in {"patents", "claims", "citations"}) =>
        /\ db = hist.phaseStart
        /\ hist.phases = PhasesUpTo(hist.failed)
        /\ hist.failed = "patents" => db = hist.pre
        /\ hist.failed \in {"claims", "citations"} => PatentsWritten(db)
        /\ hist.failed = "citations" => ClaimsWritten(db)

\* C5 witness: phase 3 failed after it had written, on top of the committed
\* patents and claims of the same load
WitC5 ==
    /\ pc = "done"
    /\ hist.failed = "citations"
    /\ hist.dirty
    /\ hist.pre.patents # db.patents
    /\ hist.pre.claims # db.claims

\* C6 as stated: load never raises, and after a database error the counts of
\* the failing phase and of the later phases are 0.
CexC6 ==
    (pc = "done" /\ hist.loads > 0) =>
        /\ ~raised
        /\ hist.failed \in {"connect", "patents"} => result = ZeroCounts
        /\ hist.failed = "claims" => (result.claims = 0 /\ result.citations = 0)
        /\ hist.failed = "citations" => result.citations = 0

\* C7: a call with an empty patents list has returned at once: all counts
\* zero, no connection opened, the tables unchanged, nothing raised.
ThmC7 ==
    (hist.loads > 0 /\ patents = <<>>) =>
        /\ pc = "done"
        /\ result = ZeroCounts
        /\ ~hist.connected
        /\ conn = "none"
        /\ db = hist.pre
        /\ ~raised

\* C7 witness: an empty patents list came with claims and citations, on a
\* store that holds rows
WitC7 ==
    /\ pc = "done"
    /\ hist.loads > 0
    /\ patents = <<>>
    /\ claims # <<>>
    /\ citations # <<>>
    /\ db.patents # {}

----------------------------------------------------------------------------
\* Properties of the fetcher (checked under FetchSpec)

\* the pages 1..n in order
PagesInOrder(n) == [i \in 1..n |-> i]

\* no request failed and every response so far carried all three keys
FailureFree == ~fhist.transport /\ ~fhist.badjson /\ fhist.lacked = {}

\* total_pages as the code reads it from the first response
FirstTotalPages == GetTotalPages(fhist.first[1])

\* C8: once a request has failed at the transport layer the fetch is over: it
\* returned the empty list, raised nothing, and no request is outstanding.
ThmC8 ==
    fhist.transport =>
        /\ fpc = "done"
        /\ fresult = <<>>
        /\ ~fraised
        /\ fhist.in_flight = 0
        /\ Len(fhist.requests) = Len(fhist.served) + 1

\* C8 witness: the third or a later request failed after earlier pages had
\* brought records
WitC8 ==
    /\ fhist.transport
    /\ Len(fhist.requests) >= 3
    /\ \E i \in 1..Len(fhist.served) : fhist.served[i] # <<>>

CexC10 ==
    (fpc = "done" /\ FailureFree /\ fhist.first # <<>>) =>
        /\ fhist.requests = PagesInOrder(Min(max_pages, FirstTotalPages))
        /\ fresult = Flatten(fhist.served)

\* C10 amended: N is min(max_pages, total_pages) but at least 1, page 1 being
\* requested before total_pages is known; at most one request is outstanding,
\* the requests so far are the pages 1, 2, ... in order, never beyond N, and
\* at the end exactly 1..N, the result being the batches in page order.
ThmC10 ==
    FailureFree =>
        /\ fhist.in_flight <= 1
        /\ fhist.requests = PagesInOrder(Len(fhist.requests))
        /\ Len(fhist.requests) <= max_pages
        /\ fhist.first # <<>> =>
              Len(fhist.requests) <= Max(1, Min(max_pages, FirstTotalPages))
        /\ (fpc = "done" /\ fhist.first # <<>>) =>
              /\ Len(fhist.requests) = Max(1, Min(max_pages, FirstTotalPages))
              /\ fresult = Flatten(fhist.served)

\* C10 witness: with the default cap and more pages on offer than the cap,
\* the fetch has returned one record from each of the pages 1..5
WitC10 ==
    /\ fpc = "done"
    /\ FailureFree
    /\ max_pages = DefaultMaxPages
    /\ fhist.first # <<>>
    /\ FirstTotalPages > DefaultMaxPages
    /\ Len(fhist.requests) = DefaultMaxPages
    /\ fresult = [i \in 1..DefaultMaxPages |-> [page |-> i]]

----------------------------------------------------------------------------
\* Properties of extract_keywords (checked under ExtractSpec)

\* the tokens of a returned string
TokensOf(str) == Split(str)

\* the distinct words of user_idea that pass the stop-word and length filter
KeywordsOfIdea == {w \in Range(Split(Substitute(LowerText(user_idea)))) : IsKeyword(w)}

\* every token of the returned string has length >= 3 and is no stop-word
TokensFiltered ==
    \A i \in 1..Len(TokensOf(keywords)) :
        /\ Len(TokensOf(keywords)[i]) >= 3
        /\ TokensOf(keywords)[i] \notin stopwords

\* C11 as stated: for every text and every max_keywords the result holds at
\* most max_keywords tokens, each of length >= 3 and none a stop-word.
CexC11 ==
    kpc # "idle" =>
        /\ Len(TokensOf(keywords)) <= max_keywords
        /\ TokensFiltered

\* C11 amended: every token of the result has length >= 3 and is no
\* stop-word; for max_keywords >= 0 the result holds min(max_keywords, U)
\* tokens, U the number of distinct keywords of the text, and for a negative
\* max_keywords it holds the first U + max_keywords of them (none if that is
\* below 0), which is more than max_keywords.
ThmC11 ==
    kpc # "idle" =>
        /\ TokensFiltered
        /\ Range(TokensOf(keywords)) \subseteq KeywordsOfIdea
        /\ max_keywords >= 0 =>
              Len(TokensOf(keywords)) = Min(max_keywords, Cardinality(KeywordsOfIdea))
        /\ max_keywords < 0 =>
              Len(TokensOf(keywords)) = Max(0, Cardinality(KeywordsOfIdea) + max_keywords)

\* C11 witness: a text with a stop-word or short word and two distinct
\* keywords was cut to one keyword
WitC11 ==
    /\ kpc = "once"
    /\ max_keywords = 1
    /\ Cardinality(KeywordsOfIdea) = 2
    /\ \E w \in Range(Split(Substitute(LowerText(user_idea)))) : ~IsKeyword(w)
    /\ Len(TokensOf(keywords)) = 1

\* C12 as stated: extracting again from the returned string, with the same
\* max_keywords, returns the same string.
CexC12 == kpc = "twice" => keywords_again = keywords

\* C12 amended: for max_keywords >= 0 extracting again from the returned
\* string returns the same string; for a negative max_keywords the second
\* extraction drops tokens from the end of the first result once more.
ThmC12 ==
    kpc = "twice" =>
        IF max_keywords >= 0
        THEN keywords_again = keywords
        ELSE keywords_again = Join(Slice(TokensOf(keywords), max_keywords))

\* C12 witness: a text with upper-case or punctuation characters, changed by
\* the first extraction into two keywords, was extracted a second time
WitC12 ==
    /\ kpc = "twice"
    /\ max_keywords = 2
    /\ Len(TokensOf(keywords)) = 2
    /\ keywords # user_idea
    /\ \E i \in 1..Len(user_idea) : user_idea[i] \in {"D", "!"}
    /\ keywords_again = keywords

----------------------------------------------------------------------------
\* Properties of parse_patents (checked under ParseSpec)

\* a sequence without its i-th element
Without(seq, i) == SubSeq(seq, 1, i - 1) \o SubSeq(seq, i + 1, Len(seq))

\* the record has no patent_number: key absent, None or empty
NoPatentNumber(raw) == raw.dict /\ Falsy(raw.patent_number)

\* C13: when parse_patents has returned, a record without patent_number has
\* contributed no patent, claim or citation, and the three lists are those
\* returned for the batch without that record.
ThmC13 ==
    (ppc = "done" /\ ~praised) =>
        \A i \in 1..Len(raw_patents) :
            NoPatentNumber(raw_patents[i]) =>
                /\ phist[i] = NoOutput
                /\ parsed = ParseAll(Without(raw_patents, i))

\* C13 witness: a record without patent_number, carrying claims and
\* citations, stood between two records that were parsed into patents
WitC13 ==
    /\ ppc = "done"
    /\ ~praised
    /\ Len(raw_patents) = 3
    /\ NoPatentNumber(raw_patents[2])
    /\ raw_patents[2].claims # <<>>
    /\ raw_patents[2].cited_patents # <<>>
    /\ phist[1].patents # <<>>
    /\ phist[3].patents # <<>>
    /\ Len(parsed.patents) = 2

\* C14 as stated: when processing a record raised at any step, parse_patents
\* does not raise, the record contributes nothing, and the output is that of
\* the batch without the record.
CexC14 ==
    ppc = "done" =>
        /\ ~praised
        /\ \A i \in 1..Len(raw_patents) :
              RecordRaises(raw_patents[i]) =>
                  /\ phist[i] = NoOutput
                  /\ parsed = ParseAll(Without(raw_patents, i))

----------------------------------------------------------------------------
\* Properties of the pipeline handlers (checked under PipeSpec)

\* the fetch of the request has returned the empty list
EmptyFetch == hpc \in {"fetch", "done"} /\ fpc = "done" /\ fresult = <<>>

NoUsableQuery ==
    /\ arguments.present
    /\ arguments.has_idea
    /\ extract_keywords(arguments.user_idea, DefaultMaxKeywords) = <<>>

\* C16 as stated: when the idea text yields an empty keyword string no
\* request is sent to the search service and the caller gets a rejection.
CexC16 ==
    NoUsableQuery =>
        /\ fhist.requests = <<>>
        /\ hpc = "done" => (hraised \/ response.status = 400)

----------------------------------------------------------------------------
\* Further properties of the loader (checked under Spec)

\* two citation rows are for the same (citing, cited) pair
SamePair(r, q) ==
    /\ r.citing_patent_number = q.citing_patent_number
    /\ r.cited_patent_number = q.cited_patent_number

\* C17: no step of any load removes or changes a committed citation row, and
\* a committed row for a pair that was already stored is the stored row: a
\* later citation with the same pair, of either type, is skipped.
ThmC17 ==
    [][/\ \A r \in db.citations : r \in db'.citations
       /\ \A r \in db'.citations :
             \A q \in db.citations : SamePair(r, q) => r = q]_vars

\* C17 witness: a second load carried, for a stored pair, a citation of the
\* opposite type; it counted nothing and the stored row is as it was
WitC17 ==
    /\ LoadedOk
    /\ hist.loads = 2
    /\ result.citations = 0
    /\ \E i \in 1..Len(citations) :
          \E r \in hist.pre.citations :
              /\ r.citing_patent_number = citations[i].citing_patent
              /\ r.cited_patent_number = citations[i].cited_patent
              /\ r.citation_type # citations[i].citation_type
              /\ r \in db.citations

\* C19: when a database call of phase 2 raised, in whatever claim group, the
\* committed claims table is the one from before the load - nothing deleted or
\* inserted for any group persists - while the patents of phase 1 are stored
\* and the citations table is untouched.
ThmC19 ==
    (pc = "done" /\ hist.failed = "claims") =>
        /\ db.claims = hist.pre.claims
        /\ db.citations = hist.pre.citations
        /\ PatentsWritten(db)

\* C19 witness: the SELECT of the second claim group raised after the first
\* group had replaced stored claims in the open transaction
WitC19 ==
    /\ pc = "done"
    /\ hist.failed = "claims"
    /\ hist.at = "claims_select"
    /\ hist.dirty
    /\ Len(GroupKeys(claims)) = 2
    /\ StoredClaims(hist.pre, GroupKeys(claims)[1]) # EmptyBag
    /\ StoredClaims(hist.pre, GroupKeys(claims)[1])
          # BatchClaims(claims, GroupKeys(claims)[1])
    /\ hist.pre.patents # db.patents

\* the claims of the batch whose patent_number has a row
ClaimsWithRow(t) ==
    SelectSeq(claims, LAMBDA c : SelectPatentId(t, c.patent_number) # <<>>)

\* C20: every stored claim, committed or in the open transaction, refers to a
\* patent row; and a load that returned without error has counted and stored
\* the claims of exactly the groups whose patent_number has a row, left the
\* groups without one out, and gone through phase 3.
ThmC20 ==
    /\ \A c \in BagToSet(db.claims) : \E r \in db.patents : r.id = c.patent_id
    /\ \A c \in BagToSet(tx.claims) : \E r \in tx.patents : r.id = c.patent_id
    /\ LoadedOk =>
          /\ result.claims = Len(ClaimsWithRow(db))
          /\ ClaimsWritten(db)
          /\ \A c \in BagToSet(hist.pre.claims) \cup BagToSet(db.claims) :
                (\A pn \in Range(GroupKeys(claims)) :
                    SelectPatentId(db, pn) # <<c.patent_id>>)
                    => CopiesIn(c, db.claims) = CopiesIn(c, hist.pre.claims)
          /\ "citations" \in hist.phases

\* C20 witness: one group had no patent row and was skipped, another group
\* replaced stored claims, and phase 3 inserted a citation
WitC20 ==
    /\ LoadedOk
    /\ \E pn \in Range(GroupKeys(claims)) : SelectPatentId(db, pn) = <<>>
    /\ \E pn \in Range(GroupKeys(claims)) :
          /\ SelectPatentId(db, pn) # <<>>
          /\ StoredClaims(hist.pre, pn) # EmptyBag
          /\ StoredClaims(hist.pre, pn) # StoredClaims(db, pn)
    /\ result.claims > 0
    /\ result.citations > 0

----------------------------------------------------------------------------
\* what a claims row or a parsed claim says, apart from ids
ClaimContent(c) == [claim_number |-> c.claim_number, claim_text |-> c.claim_text]

\* the stored claims of P1, as a bag of contents
ConcStored ==
    LET rows == {r \in cstore.claims :
                    r.patent_id \in {q.id : q \in cstore.patents}}
    IN  [c \in {ClaimContent(r) : r \in rows} |->
            Cardinality({r \in rows : ClaimContent(r) = c})]

\* the claims argument of loader l, as a bag of contents
ConcBatch(l) ==
    [c \in {ClaimContent(cbatch[l][i]) : i \in 1..Len(cbatch[l])} |->
        Cardinality({i \in 1..Len(cbatch[l]) : ClaimContent(cbatch[l][i]) = c})]

BothDone == \A l \in Loaders : cpc[l] = "done"

\* C18: once two loads with different claim sets for the same patent have
\* both committed, the stored claims of the patent are one batch, the other,
\* or both together; when the loads did not overlap in time they are exactly
\* the batch of the later load.  (That the mixed outcome does occur is the
\* state WitC18.)
ThmC18 ==
    BothDone =>
        /\ ConcStored \in {ConcBatch(1), ConcBatch(2), ConcBatch(1) (+) ConcBatch(2)}
        /\ ~chist.overlap => ConcStored = ConcBatch(chist.committed[2])

WitC18 ==
    /\ BothDone
    /\ chist.overlap
    /\ ConcStored = ConcBatch(1) (+) ConcBatch(2)
    /\ ConcStored # ConcBatch(1)
    /\ ConcStored # ConcBatch(2)

----------------------------------------------------------------------------
\* the calls of phase 2 and of phase 3
ClaimsCalls == {"claims_select", "claims_delete", "claims_insert", "commit_claims"}

CitationsCalls == {"citations", "commit_citations"}

\* C21: within one load the phases run in the order patents, claims,
\* citations, each committed before the next begins: until the patents commit
\* the committed tables are those the load found; at every claims statement
\* the patents of the batch are committed and no claim or citation of the
\* load is; at every citations statement the claims are committed too and no
\* citation is.  So whenever a claim or a citation of the load is visible to
\* other connections, the patent rows of the batch already are.
ThmC21 ==
    /\ pc \in {"connect", "patents", "commit_patents"} =>
          /\ db = hist.pre
          /\ hist.phases \subseteq {"patents"}
    /\ pc \in ClaimsCalls =>
          /\ hist.phases = {"patents", "claims"}
          /\ PatentsWritten(db)
          /\ db.claims = hist.pre.claims
          /\ db.citations = hist.pre.citations
    /\ pc \in CitationsCalls =>
          /\ hist.phases = {"patents", "claims", "citations"}
          /\ PatentsWritten(db)
          /\ ClaimsWritten(db)
          /\ db.citations = hist.pre.citations
    /\ (hist.loads > 0 /\ (db.claims # hist.pre.claims
                            \/ db.citations # hist.pre.citations)) =>
          /\ PatentsWritten(db)
          /\ "claims" \in hist.phases
    /\ (hist.loads > 0 /\ db.citations # hist.pre.citations) =>
          /\ ClaimsWritten(db)
          /\ "citations" \in hist.phases

\* a load in its citations phase: its patents and claims are committed, a
\* citation is written but not yet committed
WitC21 ==
    /\ pc = "citations"
    /\ db.patents # hist.pre.patents
    /\ db.claims # hist.pre.claims
    /\ tx.citations # db.citations
    /\ db.citations = hist.pre.citations

----------------------------------------------------------------------------
\* the patent_numbers for which the claims argument carries no claim
NoClaimInBatch == PatentNumbers \ Range(GroupKeys(claims))

\* C27: a load leaves the stored claims of every patent for which its batch
\* carries no claim as it found them, at every point of the load and in both
\* the committed tables and its open transaction; this covers a patent
\* outside the batch and a patent of the batch's patent list without claims.
ThmC27 ==
    \A pn \in NoClaimInBatch :
        /\ StoredClaims(db, pn) = StoredClaims(hist.pre, pn)
        /\ StoredClaims(tx, pn) = StoredClaims(hist.pre, pn)

\* a load has returned whose patent list names a patent with stored claims
\* from an earlier load and whose claims argument has none for it
WitC27 ==
    /\ LoadedOk
    /\ \E pn \in NumbersOf(patents) \cap NoClaimInBatch :
          /\ StoredClaims(hist.pre, pn) # EmptyBag
          /\ StoredClaims(db, pn) = StoredClaims(hist.pre, pn)
          /\ RowsOf(db, pn) # {}

----------------------------------------------------------------------------
\* Properties of the normalized record (checked under RecordSpec)

\* parse_patents has returned the output for its one record
Normalized == ppc = "done" /\ ~praised /\ Len(raw_patents) = 1

\* the positions of the source claims that have a text (not missing, not '')
WithText(raw_claims) ==
    SelectSeq([i \in 1..Len(raw_claims) |-> i],
              LAMBDA i : raw_claims[i].claim_text \notin {None, Some(<<>>)})

\* the source entry provides a claim number
HasNumber(claim) == claim.claim_number \notin {None, Some(NoneNumber)}

\* C22 as stated: each emitted claim keeps the explicit claim_number of its
\* source entry when the source provides one and otherwise gets its 1-based
\* position, and a record whose N claims carry no explicit number yields
\* claims numbered 1..N.
CexC22 ==
    Normalized =>
        LET raw_claims == raw_patents[1].claims
            kept       == WithText(raw_claims)
        IN  /\ Len(parsed.claims) = Len(kept)
            /\ \A j \in 1..Len(kept) :
                  parsed.claims[j].claim_number =
                      IF HasNumber(raw_claims[kept[j]])
                      THEN raw_claims[kept[j]].claim_number[1]
                      ELSE kept[j]
            /\ (\A i \in 1..Len(raw_claims) : ~HasNumber(raw_claims[i])) =>
                  {parsed.claims[j].claim_number : j \in 1..Len(parsed.claims)}
                      = 1..Len(raw_claims)

\* C23 as stated: every emitted claim has a trimmed, non-empty claim_text, and
\* a source claim whose text is missing, empty or only whitespace is dropped.
CexC23 ==
    Normalized =>
        LET raw_claims == raw_patents[1].claims
        IN  /\ \A j \in 1..Len(parsed.claims) :
                  LET text == parsed.claims[j].claim_text
                  IN  text # <<>> /\ Head(text) # " " /\ text[Len(text)] # " "
            /\ Len(parsed.claims) =
                  Cardinality({i \in 1..Len(raw_claims) :
                      /\ raw_claims[i].claim_text # None
                      /\ Strip(raw_claims[i].claim_text[1]) # <<>>})

\* a name part as text: nothing when the part is missing
PartText(x) == IF HasNamePart(x) THEN x ELSE <<>>

\* C24 as stated: inventor_names is the comma-joined "first last" of exactly
\* the inventors with at least one name part, and null when no inventor has
\* one, whether the list is empty or not.
CexC24 ==
    (Normalized /\ parsed.patents # <<>>) =>
        LET inventors == raw_patents[1].inventors
            named == SelectSeq(inventors,
                        LAMBDA inv : HasNamePart(inv.inventor_name_first)
                                     \/ HasNamePart(inv.inventor_name_last))
        IN  parsed.patents[1].inventor_names =
                IF named = <<>> THEN None
                ELSE Some(JoinWith(<<",", " ">>,
                        [i \in 1..Len(named) |->
                            Strip(PartText(named[i].inventor_name_first)
                                  \o <<" ">>
                                  \o PartText(named[i].inventor_name_last))]))

\* how many elements of a list satisfy a test
Count(seq, Test(_)) == Cardinality({i \in 1..Len(seq) : Test(seq[i])})

\* C25: a record with patent number P that is normalized without an exception
\* emits, for every identifier X, as many citations (P, X, backward) as its
\* cited list has entries with identifier X and as many citations
\* (X, P, forward) as its cited-by list has entries with identifier X, and
\* nothing else: entries without identifier emit nothing, and neither
\* direction removes a citation of the other.
ThmC25 ==
    Normalized =>
        LET raw == raw_patents[1]
            P   == raw.patent_number
            out == parsed.citations
        IN  /\ \A k \in 1..Len(out) :
                  \/ out[k].citation_type = "backward" /\ out[k].citing_patent = P
                        /\ ~Falsy(out[k].cited_patent)
                  \/ out[k].citation_type = "forward" /\ out[k].cited_patent = P
                        /\ ~Falsy(out[k].citing_patent)
            /\ \A X \in {"P1", "P9"} :
                  /\ Count(out, LAMBDA c : c = ParsedCitation(P, X, "backward"))
                        = Count(raw.cited_patents,
                                LAMBDA e : e.cited_patent_number = X)
                  /\ Count(out, LAMBDA c : c = ParsedCitation(X, P, "forward"))
                        = Count(raw.citedby_patents,
                                LAMBDA e : e.citedby_patent_number = X)
            /\ Len(out) = Count(raw.cited_patents,
                                LAMBDA e : ~Falsy(e.cited_patent_number))
                          + Count(raw.citedby_patents,
                                  LAMBDA e : ~Falsy(e.citedby_patent_number))

\* a record that cites P9 and is cited by P9, with an entry without
\* identifier in each list: one citation in each direction
WitC25 ==
    /\ Normalized
    /\ \E i \in 1..Len(raw_patents[1].cited_patents) :
          raw_patents[1].cited_patents[i].cited_patent_number = "P9"
    /\ \E i \in 1..Len(raw_patents[1].cited_patents) :
          Falsy(raw_patents[1].cited_patents[i].cited_patent_number)
    /\ \E i \in 1..Len(raw_patents[1].citedby_patents) :
          raw_patents[1].citedby_patents[i].citedby_patent_number = "P9"
    /\ \E i \in 1..Len(raw_patents[1].citedby_patents) :
          Falsy(raw_patents[1].citedby_patents[i].citedby_patent_number)
    /\ Len(parsed.citations) = 2
    /\ parsed.citations[1] = ParsedCitation("P1", "P9", "backward")
    /\ parsed.citations[2] = ParsedCitation("P9", "P1", "forward")

----------------------------------------------------------------------------
\* Properties of the JSON-RPC server (checked under RpcSpec)

\* the connection sent data and handle_client read it
DataRead == rpc_data.kind \notin {"none", "empty"}

\* the request names a known method and, for a tool call, a known tool that
\* returned
Succeeds ==
    /\ rpc_data.kind = "json"
    /\ rpc_request.dict
    /\ \/ rpc_request.method = "mcp.listTools"
       \/ /\ rpc_request.method = "mcp.callTool"
          /\ rpc_request.params.dict
          /\ rpc_request.params.name \in ToolNames
          /\ rpc_hist.outcome = "returns"

\* the one response of a connection whose peer stayed
OneResponse ==
    /\ Len(rpc_written) = 1
    /\ rpc_written[1].jsonrpc = "2.0"
    /\ rpc_written[1].member \in {"result", "error"}
    /\ rpc_written[1].member = "result" <=> Succeeds
    /\ Succeeds => rpc_written[1] = ResultResponse(rpc_request.id)
    /\ rpc_data.kind = "malformed" =>
          rpc_written[1] = ErrorResponse("None", 0 - 32700)
    /\ (rpc_data.kind = "json" /\ rpc_request.dict /\ ~Succeeds) =>
          rpc_written[1] = ErrorResponse(rpc_request.id, 0 - 32603)

\* C26: a connection whose data handle_client has read is answered with
\* exactly one JSON-RPC response, a result on success and an error object on
\* malformed JSON, an unknown method or tool and an exception in a tool
\* handler, and the transport is then closed and takes no further response;
\* no connection is handed more than one response, and every connection
\* that is read is closed in the end.  (When the peer goes away before the
\* response is written the response is discarded.)
ThmC26 ==
    /\ [](Len(rpc_written) <= 1)
    /\ [](rpc_pc = "closed" => rpc_transport = "closed")
    /\ []((rpc_pc \in {"closing", "closed"} /\ DataRead /\ ~rpc_hist.lost)
              => OneResponse)
    /\ [][rpc_transport = "closed" => rpc_written' = rpc_written]_vars
    /\ (rpc_pc = "loads" ~> rpc_pc = "closed")

\* a tool call that raised was answered with one error object and the
\* connection is closed
WitC26 ==
    /\ rpc_pc = "closed"
    /\ rpc_transport = "closed"
    /\ ~rpc_hist.lost
    /\ rpc_request.dict
    /\ rpc_request.method = "mcp.callTool"
    /\ rpc_request.params.name \in ToolNames
    /\ rpc_hist.outcome = "raises"
    /\ rpc_written = <<ErrorResponse(rpc_request.id, 0 - 32603)>>

====
